---------------------------- MODULE Spec2Model ----------------------------
(***************************************************************************)
(* A model of PollyReports.py: TextElement, SumElement, Band.generate,     *)
(* Band.ischanged and the pagination loop of Report.generate.              *)
(*                                                                         *)
(* Conventions.  Python's None is the string None for keys; an optional    *)
(* object (a band slot of the Report, the locals row and prevrow) is a     *)
(* sequence of length 0 (None) or 1.  Python lists are sequences, so the   *)
(* code's index i is i+1 here and the locals lastchanged / firstchanged    *)
(* hold 0 for None.  An exception is the name of its class in `err`; it    *)
(* ends generate at the statement that raised it.                          *)
(***************************************************************************)
EXTENDS Integers, Sequences, FiniteSets, TLC

\* ------------------------------------------------------------------ bounds
\* Records the datasource yields at most.
MaxRecords == 3
\* Calls made on the stand-alone SumElement at most.
MaxCalls == 4

\* --------------------------------------------------------------- constants
None == "None"
\* Report.__init__ defaults.
topmargin == 36
bottommargin == 36

\* The module-level names with Element = TextElement added.
ModuleGlobals_withElement ==
    { "simpleSplit", "BaseRenderer", "TextRenderer", "BaseElement", "TextElement",
      "SumElement", "ShapeRenderer", "ShapeElement", "Rule", "ImageRenderer",
      "Image", "Band", "Report", "Element" }

\* The names bound at module level in PollyReports.py (its import, its classes).
ModuleGlobals ==
    { "simpleSplit", "BaseRenderer", "TextRenderer", "BaseElement", "TextElement",
      "SumElement", "ShapeRenderer", "ShapeElement", "Rule", "ImageRenderer",
      "Image", "Band", "Report" }

Max(a, b) == IF a >= b THEN a ELSE b

\* F applied to the value of v: v is evaluated once, however often F uses it.
Bind(v, F(_)) == CHOOSE out \in { F(x) : x \in { v } } : TRUE

\* ------------------------------------------------------------------- rows
\* A row of the datasource: a name, a department (possibly None), and a
\* description that wraps to `lines` lines; the amount goes with the name.
\* n is the ordinal of the record in the datasource (it identifies the row
\* in the canvas log).
Names == { "Alvarez", "Baldwin" }
Depts == { None, "x" }
RowValues == [ name : Names, dept : Depts, lines : 1..2 ]

\* row["name"][0]
FirstLetter(name) == IF name = "Baldwin" THEN "B" ELSE "A"

\* row["amount"]
Amount(name) == IF name = "Baldwin" THEN 2 ELSE 1

\* A raw record of the datasource: a row, or a record the row function drops.
Records == [ skip : {FALSE}, val : RowValues ]
             \cup { [ skip |-> TRUE, val |-> CHOOSE r \in RowValues : TRUE ] }

\* Report.rowfunc as configured here: a filter returning None for dropped records.
rowfunc(rec, n) ==
    IF rec.skip THEN << >>
    ELSE << [ n |-> n, name |-> rec.val.name, dept |-> rec.val.dept,
              lines |-> rec.val.lines, amount |-> Amount(rec.val.name) ] >>

RowN(r) == IF r = << >> THEN 0 ELSE r[1].n

\* ---------------------------------------------------------------- elements
\* TextElement(text=...), TextElement(key="description", width=...) and
\* SumElement(getvalue=lambda r: r["amount"]); posy is pos[1], lh is
\* font[1] + leading.
Txt(y, lh) == [ type |-> "text", posy |-> y, lh |-> lh ]
Key(y, lh) == [ type |-> "key", posy |-> y, lh |-> lh ]
Sum(y, lh) == [ type |-> "sum", posy |-> y, lh |-> lh ]

\* Band.__init__; keyfn says how Band.getvalue finds the group key:
\* "initial" is getvalue = lambda row: row["name"][0], "dept" is key = "dept",
\* "" is neither.
Band(els, kids, adds, keyfn, npb, npa) ==
    [ elements |-> els, childbands |-> kids, additionalbands |-> adds,
      keyfn |-> keyfn, newpagebefore |-> npb, newpageafter |-> npa,
      backgrounds |-> << >> ]

\* ShapeElement((x, y), "rectangle", width, bottomMargin = bm), and a band
\* constructed with backgrounds = bgs.
\* colors is << >> for colors = None and << n >> for a list of n colours.
Shape(y, bm) ==
    [ type |-> "shape", posy |-> y, bottomMargin |-> bm, colors |-> << >> ]
ColourShape(y, bm, n) == [ Shape(y, bm) EXCEPT !.colors = << n >> ]
WithBackgrounds(band, bgs) == [ band EXCEPT !.backgrounds = bgs ]

HasSum(band) == \E i \in 1..Len(band.elements) : band.elements[i].type = "sum"


\* ------------------------------------------------------- SumElement, Element
\* SumElement.summarize applied to an accumulator `summary`; v is what the
\* element's value function yields for the row (<< >> is None).  The call
\* reads the module-level name Element; an unbound name raises NameError
\* before anything is added.
SumElement_summarize(summary, v) ==
    IF "Element" \in ModuleGlobals
    THEN [ err |-> "none",
           summary |-> summary + (IF v = << >> THEN 0 ELSE v[1]) ]
    ELSE [ err |-> "NameError", summary |-> summary ]

\* SumElement.getvalue: return the accumulator and clear it.
SumElement_getvalue(summary) == [ rc |-> summary, summary |-> 0 ]

\* element.generate(row) for the three element kinds: the renderer's height
\* (line height x number of lines), the value a SumElement shows, and the
\* element's accumulator afterwards.  A keyed element subscripts the row.
ElementGenerate(el, summary, row) ==
    CASE el.type = "sum" ->
           LET g == SumElement_getvalue(summary)
           IN  [ err |-> "none", height |-> el.lh, shown |-> << g.rc >>,
                 summary |-> g.summary ]
      [] el.type = "key" ->
           IF row = << >>
           THEN [ err |-> "TypeError", height |-> 0, shown |-> << >>,
                  summary |-> summary ]
           ELSE [ err |-> "none", height |-> el.lh * row[1].lines,
                  shown |-> << >>, summary |-> summary ]
      [] OTHER ->
           [ err |-> "none", height |-> el.lh, shown |-> << >>,
             summary |-> summary ]

\* The renderer element.generate returns: its element, pos[1] and height.
Renderer(el, height) == [ el |-> el, pos |-> el.posy, height |-> height ]

\* renderer.applyoffset(offset) on every renderer of a list.
applyoffset(list, offset) ==
    [ k \in 1..Len(list) |-> [ list[k] EXCEPT !.pos = @ + offset ] ]

RECURSIVE GenElements(_, _, _, _)
\* The loop over self.elements with the height of the element taken for the
\* maximum.
GenElements_last(els, row, i, acc_) ==
    Bind(acc_, LAMBDA acc :
      IF i > Len(els) \/ acc.err # "none" THEN acc
      ELSE Bind(ElementGenerate(els[i], acc.sums[i], row), LAMBDA g :
             GenElements(els, row, i + 1,
                 [ err |-> g.err,
                   ht |-> IF g.err = "none" THEN g.height + els[i].posy ELSE acc.ht,
                   shown |-> acc.shown \o g.shown,
                   sums |-> [ acc.sums EXCEPT ![i] = g.summary ],
                   list |-> IF g.err = "none"
                            THEN Append(acc.list, Renderer(els[i], g.height))
                            ELSE acc.list ])))

\* The loop over self.elements of Band.generate, from element i on.
GenElements(els, row, i, acc_) ==
    Bind(acc_, LAMBDA acc :
      IF i > Len(els) \/ acc.err # "none" THEN acc
      ELSE Bind(ElementGenerate(els[i], acc.sums[i], row), LAMBDA g :
             GenElements(els, row, i + 1,
                 [ err |-> g.err,
                   ht |-> IF g.err = "none"
                          THEN Max(acc.ht, g.height + els[i].posy) ELSE acc.ht,
                   shown |-> acc.shown \o g.shown,
                   sums |-> [ acc.sums EXCEPT ![i] = g.summary ],
                   list |-> IF g.err = "none"
                            THEN Append(acc.list, Renderer(els[i], g.height))
                            ELSE acc.list ])))

Zeros(els) == [ i \in 1..Len(els) |-> 0 ]

\* Band.generate(row): the height elementlist[0], the renderers
\* elementlist[1:] (of a band without backgrounds), the values its
\* SumElements show, and their accumulators afterwards.  `sums` are the
\* accumulators of the band's own elements.
RECURSIVE Band_generate(_, _, _)
RECURSIVE GenChildren(_, _, _, _)
\* The loop over self.childbands without renderer.applyoffset.
GenChildren_noshift(kids, row, i, acc_) ==
    Bind(acc_, LAMBDA acc :
      IF i > Len(kids) \/ acc.err # "none" THEN acc
      ELSE Bind(Band_generate(kids[i], Zeros(kids[i].elements), row), LAMBDA c :
             GenChildren(kids, row, i + 1,
                 [ acc EXCEPT !.err = c.err,
                              !.ht = IF c.err = "none" THEN acc.ht + c.ht
                                     ELSE acc.ht,
                              !.list = IF c.err = "none" THEN acc.list \o c.list
                                       ELSE acc.list ])))

\* The loop over self.childbands of Band.generate, from child i on.
GenChildren(kids, row, i, acc_) ==
    Bind(acc_, LAMBDA acc :
      IF i > Len(kids) \/ acc.err # "none" THEN acc
      ELSE Bind(Band_generate(kids[i], Zeros(kids[i].elements), row), LAMBDA c :
             GenChildren(kids, row, i + 1,
                 [ acc EXCEPT !.err = c.err,
                              !.ht = IF c.err = "none" THEN acc.ht + c.ht
                                     ELSE acc.ht,
                              !.list = IF c.err = "none"
                                       THEN acc.list \o applyoffset(c.list, acc.ht)
                                       ELSE acc.list ])))
\* The backgrounds appended to the list instead of inserted at its front.
AddBackgrounds_appended(band, acc_) ==
    Bind(acc_, LAMBDA acc :
      IF acc.err # "none" \/ Len(band.backgrounds) = 0 THEN acc
      ELSE [ acc EXCEPT !.list =
               @ \o [ k \in 1..Len(band.backgrounds) |->
                        [ el |-> band.backgrounds[k],
                          pos |-> band.backgrounds[k].posy,
                          height |-> acc.ht - band.backgrounds[k].posy
                                     - band.backgrounds[k].bottomMargin ] ] ])

\* if len(self.backgrounds) > 0: every background gets its height from the
\* band's and its renderer is inserted at index numBackgrounds.
AddBackgrounds(band, acc_) ==
    Bind(acc_, LAMBDA acc :
      IF acc.err # "none" \/ Len(band.backgrounds) = 0 THEN acc
      ELSE [ acc EXCEPT !.list =
               [ k \in 1..Len(band.backgrounds) |->
                   [ el |-> band.backgrounds[k],
                     pos |-> band.backgrounds[k].posy,
                     height |-> acc.ht - band.backgrounds[k].posy
                                - band.backgrounds[k].bottomMargin ] ] \o @ ])

Band_generate(band, sums, row) ==
    LET own == GenElements(band.elements, row, 1,
                   [ err |-> "none", ht |-> 0, shown |-> << >>, sums |-> sums,
                     list |-> << >> ])
    IN  AddBackgrounds(band, GenChildren(band.childbands, row, 1, own))

\* Whether summarize reaches a SumElement in the band, its child bands or
\* its additional bands.
RECURSIVE AnySum(_)
AnySum(band) ==
    \/ HasSum(band)
    \/ \E i \in 1..Len(band.childbands) : AnySum(band.childbands[i])
    \/ \E i \in 1..Len(band.additionalbands) : AnySum(band.additionalbands[i])

\* The loop over self.elements of Band.summarize, from element i on.
RECURSIVE SumElements(_, _, _, _)
SumElements(els, row, i, acc_) ==
    Bind(acc_, LAMBDA acc :
      IF i > Len(els) \/ acc.err # "none" THEN acc
      ELSE IF els[i].type # "sum" THEN SumElements(els, row, i + 1, acc)
      ELSE Bind(SumElement_summarize(acc.sums[i], << row[1].amount >>), LAMBDA s :
             SumElements(els, row, i + 1,
                 [ err |-> s.err, sums |-> [ acc.sums EXCEPT ![i] = s.summary ] ])))

\* Band.summarize(row): own elements, then child bands, then additional bands.
Band_summarize(band, sums, row) ==
    LET below == \/ \E i \in 1..Len(band.childbands) : AnySum(band.childbands[i])
                 \/ \E i \in 1..Len(band.additionalbands) :
                        AnySum(band.additionalbands[i])
    IN  Bind(SumElements(band.elements, row, 1, [ err |-> "none", sums |-> sums ]),
             LAMBDA own :
               IF own.err = "none" /\ below /\ "Element" \notin ModuleGlobals
               THEN [ own EXCEPT !.err = "NameError" ]
               ELSE own)

\* Band.getvalue(row): the group key of the row.
Band_getvalue(band, row) ==
    CASE band.keyfn = "initial" -> FirstLetter(row[1].name)
      [] band.keyfn = "dept" -> row[1].dept
      [] OTHER -> "0"

\* Band.ischanged without self.previousvalue = self.getvalue(row).
Band_ischanged_nostore(band, pv, row) ==
    [ rc |-> pv # None /\ pv # Band_getvalue(band, row),
      previousvalue |-> pv ]

\* Band.ischanged without the test for a baseline (pv is not None).
Band_ischanged_nobaseline(band, pv, row) ==
    [ rc |-> pv # Band_getvalue(band, row),
      previousvalue |-> Band_getvalue(band, row) ]

\* Band.ischanged(row) applied to the band's previousvalue pv: the value
\* returned (TRUE for 1, FALSE for None) and the new previousvalue.
Band_ischanged(band, pv, row) ==
    [ rc |-> pv # None /\ pv # Band_getvalue(band, row),
      previousvalue |-> Band_getvalue(band, row) ]


\* ------------------------------------------------------------------ state
VARIABLES
    cfg,            \* the Report as constructed: its bands and the page height
    pc,             \* where Report.generate stands
    consumed,       \* records the datasource has yielded so far
    row,            \* generate's local row (<< >> is None)
    prevrow,        \* generate's local prevrow
    firstrow,       \* generate's local firstrow
    lastchanged,    \* generate's local lastchanged (0 is None)
    firstchanged,   \* generate's local firstchanged (0 is None)
    rpt,            \* the Report's fields
    previousvalue,  \* Band.previousvalue of each group footer and group header
    sums,           \* the accumulators (summary) of the footers' elements
    canvas,         \* what the canvas received: showPage calls, the bands
                    \* rendered for the current row (log), and how often each
                    \* page band was rendered since construction (drawn)
    err,            \* the exception that ended generate, or "none"
    changed,        \* what ischanged returned for the current row, per band,
                    \* and how often it was called on each band (calls)
    expect,         \* per footer, the amounts of the rows handed to summarize
                    \* since the footer was last generated; the heights of the
                    \* detail bands generated so far (detail)
    npa,            \* the role of the band whose newpageafter moved the cursor,
                    \* while no band was placed since ("" otherwise)
    se,             \* a SumElement used on its own, and the calls made on it
    te,             \* a TextElement used on its own, and the last call made on it
    bg,             \* a Band used on its own, and what its generate returned
    gn              \* a Report generated more than once: its row counter and
                    \* detail statistics, and the detail heights of the run

vars == << cfg, pc, consumed, row, prevrow, firstrow, lastchanged, firstchanged,
           rpt, previousvalue, sums, canvas, err, changed, expect, npa, se, te, bg,
           gn >>

pagesize == cfg.pagesize

\* The state an emission works on, threaded through the operators below.
Pack == [ rpt |-> rpt, sums |-> sums, canvas |-> canvas, err |-> err,
          expect |-> expect, npa |-> npa ]

\* ShapeRenderer.render with the index (rownumber - 1) replaced by rownumber.
ShapeRenderer_render_unshifted(colors, rownumber) ==
    IF colors = << >> THEN << >> ELSE << rownumber % colors[1] >>

\* ShapeRenderer.render: the index into colors handed to setFillColor
\* (<< >>: setFillColor is not called).
ShapeRenderer_render(colors, rownumber) ==
    IF colors = << >> THEN << >> ELSE << (rownumber - 1) % colors[1] >>

\* addtopage: render on every renderer of the list; the colours the
\* background shapes of the band and of its child bands are filled with.
RECURSIVE FillColours(_, _, _)
FillColours(band, i, rownumber) ==
    IF i <= Len(band.backgrounds)
    THEN << ShapeRenderer_render(band.backgrounds[i].colors, rownumber) >>
         \o FillColours(band, i + 1, rownumber)
    ELSE IF i <= Len(band.backgrounds) + Len(band.childbands)
    THEN FillColours(band.childbands[i - Len(band.backgrounds)], 1, rownumber)
         \o FillColours(band, i + 1, rownumber)
    ELSE << >>

\* A band rendered on the canvas.  role/idx/sub name the band (sub = 0 the
\* band itself, j its j-th additional band); before and eop are the cursor
\* and the page end when the band was generated (pagebefore the page
\* counter, avg the detail-height average); brk says newpage was called
\* for it; at/page are where it was rendered; rown is the row it was
\* generated from; colours are the fill colours of its background shapes; shown are the totals its SumElements printed and expected
\* the amounts handed to summarize for it since it was last generated.
Event(role, idx, sub, ht, r, rule, band, brk, at, page, genrow, shown, ex, after) ==
    [ role |-> role, idx |-> idx, sub |-> sub, ht |-> ht,
      before |-> r.current_offset, eop |-> r.endofpage, avg |-> r.avg_detail_ht,
      pagebefore |-> r.pagenumber,
      rule |-> rule, npb |-> band.newpagebefore, brk |-> brk, at |-> at,
      page |-> page, rown |-> RowN(genrow), shown |-> shown, expected |-> ex,
      afternpa |-> after, colours |-> FillColours(band, 1, r.rownumber) ]

\* One of the page bands of newpage: generated from the row, rendered at the
\* cursor, which then moves down by its height.
PageBand(m_, slot, role, row_) ==
    Bind(m_, LAMBDA m :
      IF m.err # "none" \/ slot = << >> THEN m
      ELSE Bind(Band_generate(slot[1], Zeros(slot[1].elements), row_), LAMBDA g :
             IF g.err # "none" THEN [ m EXCEPT !.err = g.err ]
             ELSE [ m EXCEPT
                      !.rpt.current_offset = @ + g.ht,
                      !.canvas.drawn[role] = @ + 1,
                      !.canvas.log = Append(@,
                          Event(role, 0, 0, g.ht, m.rpt, "page", slot[1], FALSE,
                                m.rpt.current_offset, m.rpt.pagenumber, row_,
                                << >>, 0, "")) ]))

\* The page footer rendered at the bottom margin, endofpage left alone.
PageFooter_atmargin(m_, slot, row_) ==
    Bind(m_, LAMBDA m :
      IF m.err # "none" \/ slot = << >> THEN m
      ELSE Bind(Band_generate(slot[1], Zeros(slot[1].elements), row_), LAMBDA g :
             IF g.err # "none" THEN [ m EXCEPT !.err = g.err ]
             ELSE [ m EXCEPT
                      !.canvas.drawn["pagefooter"] = @ + 1,
                      !.canvas.log = Append(@,
                          Event("pagefooter", 0, 0, g.ht, m.rpt, "page", slot[1],
                                FALSE, pagesize - bottommargin, m.rpt.pagenumber,
                                row_, << >>, 0, "")) ]))

\* The page footer of newpage: it sets endofpage and is rendered there.
PageFooter(m_, slot, row_) ==
    Bind(m_, LAMBDA m :
      IF m.err # "none" \/ slot = << >> THEN m
      ELSE Bind(Band_generate(slot[1], Zeros(slot[1].elements), row_), LAMBDA g :
             LET eop == pagesize - bottommargin - g.ht
             IN  IF g.err # "none" THEN [ m EXCEPT !.err = g.err ]
                 ELSE [ m EXCEPT
                          !.rpt.endofpage = eop,
                          !.canvas.drawn["pagefooter"] = @ + 1,
                          !.canvas.log = Append(@,
                              Event("pagefooter", 0, 0, g.ht, m.rpt, "page", slot[1],
                                    FALSE, eop, m.rpt.pagenumber, row_, << >>, 0,
                                    "")) ]))

\* Report.newpage without self.current_offset = self.topmargin.
newpage_keepcursor(m_, row_) ==
    Bind(m_, LAMBDA m :
      PageFooter([ m EXCEPT
                     !.canvas.showPages = IF m.rpt.pagenumber # 0 THEN @ + 1 ELSE @,
                     !.rpt.pagenumber = @ + 1,
                     !.rpt.endofpage = pagesize - bottommargin ],
                 cfg.pagefooter, row_))

\* Report.newpage without the tests self.pagenumber == 1.
newpage_everypage(m_, row_) ==
    Bind(m_, LAMBDA m :
      LET m0 == [ m EXCEPT
                    !.canvas.showPages = IF m.rpt.pagenumber # 0 THEN @ + 1 ELSE @,
                    !.rpt.pagenumber = @ + 1,
                    !.rpt.endofpage = pagesize - bottommargin,
                    !.rpt.current_offset = topmargin ]
          m1 == PageBand(m0, cfg.titleband, "title", row_)
          m2 == PageBand(m1, cfg.pageheader, "pageheader", row_)
          m3 == PageBand(m2, cfg.reportheader, "reportheader", row_)
      IN  PageFooter(m3, cfg.pagefooter, row_))

\* newpage without canvas.showPage().
newpage_noshowpage(m_, row_) ==
    Bind(m_, LAMBDA m :
      LET first == m.rpt.pagenumber + 1 = 1
          m0 == [ m EXCEPT
                    !.rpt.pagenumber = @ + 1,
                    !.rpt.endofpage = pagesize - bottommargin,
                    !.rpt.current_offset = topmargin ]
          m1 == PageBand(m0, IF first THEN cfg.titleband ELSE << >>, "title", row_)
          m2 == PageBand(m1, cfg.pageheader, "pageheader", row_)
          m3 == PageBand(m2, IF first THEN cfg.reportheader ELSE << >>,
                         "reportheader", row_)
      IN  PageFooter(m3, cfg.pagefooter, row_))

\* Report.newpage(canvas, row).
newpage(m_, row_) ==
    Bind(m_, LAMBDA m :
      LET first == m.rpt.pagenumber + 1 = 1
          m0 == [ m EXCEPT
                    !.canvas.showPages = IF m.rpt.pagenumber # 0 THEN @ + 1 ELSE @,
                    !.rpt.pagenumber = @ + 1,
                    !.rpt.endofpage = pagesize - bottommargin,
                    !.rpt.current_offset = topmargin ]
          m1 == PageBand(m0, IF first THEN cfg.titleband ELSE << >>, "title", row_)
          m2 == PageBand(m1, cfg.pageheader, "pageheader", row_)
          m3 == PageBand(m2, IF first THEN cfg.reportheader ELSE << >>,
                         "reportheader", row_)
      IN  PageFooter(m3, cfg.pagefooter, row_))

\* The test on the cursor alone, the height of the band left out.
NeedsNewPage_cursoronly(rule, band, ht, r) ==
    CASE rule = "plain" -> r.current_offset >= r.endofpage
      [] rule = "npb" ->
           band.newpagebefore \/ r.current_offset >= r.endofpage
      [] rule = "avg" ->
           \/ band.newpagebefore
           \/ r.current_offset + r.avg_detail_ht >= r.endofpage

\* The test for a group header without self._avg_detail_ht.
NeedsNewPage_noavg(rule, band, ht, r) ==
    CASE rule = "plain" -> r.current_offset + ht >= r.endofpage
      [] rule = "npb" ->
           band.newpagebefore \/ r.current_offset + ht >= r.endofpage
      [] rule = "avg" ->
           band.newpagebefore \/ r.current_offset + ht >= r.endofpage

\* The test with > for >=.
NeedsNewPage_strict(rule, band, ht, r) ==
    CASE rule = "plain" -> r.current_offset + ht > r.endofpage
      [] rule = "npb" ->
           band.newpagebefore \/ r.current_offset + ht > r.endofpage
      [] rule = "avg" ->
           \/ band.newpagebefore
           \/ r.current_offset + ht + r.avg_detail_ht > r.endofpage

\* The test made before a band is placed: whether newpage is called first.
\* "plain": first-row group headers, the detail band, additional bands;
\* "npb": group footers and the report footer; "avg": group headers emitted
\* on a key change.
NeedsNewPage(rule, band, ht, r) ==
    CASE rule = "plain" -> r.current_offset + ht >= r.endofpage
      [] rule = "npb" ->
           band.newpagebefore \/ r.current_offset + ht >= r.endofpage
      [] rule = "avg" ->
           \/ band.newpagebefore
           \/ r.current_offset + ht + r.avg_detail_ht >= r.endofpage

\* The accumulators of the band being generated.
SumsOf(m, role, idx, sub, band) ==
    CASE role = "groupfooter" /\ sub = 0 -> m.sums.gf[idx]
      [] role = "reportfooter" /\ sub = 0 -> m.sums.rf
      [] OTHER -> Zeros(band.elements)

\* newpage called again while the band does not fit.
PlaceBand_untilfits(m_, role, idx, sub, band, genrow, nprow, rule) ==
    Bind(m_, LAMBDA m :
      IF m.err # "none" THEN m
      ELSE
      Bind(Band_generate(band, SumsOf(m, role, idx, sub, band), genrow), LAMBDA g :
        LET ex == CASE role = "groupfooter" /\ sub = 0 -> m.expect.gf[idx]
                    [] role = "reportfooter" /\ sub = 0 -> m.expect.rf
                    [] OTHER -> 0
            m1 == CASE role = "groupfooter" /\ sub = 0 ->
                         [ m EXCEPT !.sums.gf[idx] = g.sums, !.expect.gf[idx] = 0 ]
                    [] role = "reportfooter" /\ sub = 0 ->
                         [ m EXCEPT !.sums.rf = g.sums, !.expect.rf = 0 ]
                    [] OTHER -> m
            brk == NeedsNewPage(rule, band, g.ht, m.rpt)
        IN  IF g.err # "none" THEN [ m1 EXCEPT !.err = g.err ]
            ELSE Bind(IF brk THEN (IF NeedsNewPage(rule, band, g.ht, newpage(m1, nprow).rpt)
                                   THEN newpage(newpage(m1, nprow), nprow)
                                   ELSE newpage(m1, nprow))
                      ELSE m1, LAMBDA m2 :
                   IF m2.err # "none" THEN m2
                   ELSE [ m2 EXCEPT
                            !.rpt.current_offset = @ + g.ht,
                            !.npa = "",
                            !.canvas.log = Append(@,
                                Event(role, idx, sub, g.ht, m.rpt, rule, band, brk,
                                      m2.rpt.current_offset, m2.rpt.pagenumber,
                                      genrow, g.shown, ex, m.npa)) ])))

\* elementlist = band.generate(genrow); if <test>: self.newpage(canvas, nprow);
\* self.current_offset += self.addtopage(canvas, elementlist)
PlaceBand(m_, role, idx, sub, band, genrow, nprow, rule) ==
    Bind(m_, LAMBDA m :
      IF m.err # "none" THEN m
      ELSE
      Bind(Band_generate(band, SumsOf(m, role, idx, sub, band), genrow), LAMBDA g :
        LET ex == CASE role = "groupfooter" /\ sub = 0 -> m.expect.gf[idx]
                    [] role = "reportfooter" /\ sub = 0 -> m.expect.rf
                    [] OTHER -> 0
            m1 == CASE role = "groupfooter" /\ sub = 0 ->
                         [ m EXCEPT !.sums.gf[idx] = g.sums, !.expect.gf[idx] = 0 ]
                    [] role = "reportfooter" /\ sub = 0 ->
                         [ m EXCEPT !.sums.rf = g.sums, !.expect.rf = 0 ]
                    [] OTHER -> m
            brk == NeedsNewPage(rule, band, g.ht, m.rpt)
        IN  IF g.err # "none" THEN [ m1 EXCEPT !.err = g.err ]
            ELSE Bind(IF brk THEN newpage(m1, nprow) ELSE m1, LAMBDA m2 :
                   IF m2.err # "none" THEN m2
                   ELSE [ m2 EXCEPT
                            !.rpt.current_offset = @ + g.ht,
                            !.npa = "",
                            !.canvas.log = Append(@,
                                Event(role, idx, sub, g.ht, m.rpt, rule, band, brk,
                                      m2.rpt.current_offset, m2.rpt.pagenumber,
                                      genrow, g.shown, ex, m.npa)) ])))

\* for aband in band.additionalbands: ... (from the j-th on)
RECURSIVE PlaceAdditional(_, _, _, _, _, _)
PlaceAdditional(m_, role, idx, band, row_, j) ==
    Bind(m_, LAMBDA m :
      IF j > Len(band.additionalbands) \/ m.err # "none" THEN m
      ELSE PlaceAdditional(
               PlaceBand(m, role, idx, j, band.additionalbands[j], row_, row_,
                         "plain"),
               role, idx, band, row_, j + 1))

\* newpageafter that leaves the cursor where it is.
AfterBand_keepcursor(m_, role, idx, band) ==
    Bind(m_, LAMBDA m :
      IF m.err = "none" /\ band.newpageafter THEN [ m EXCEPT !.npa = role ] ELSE m)

\* if band.newpageafter: self.current_offset = self.pagesize[1]
AfterBand(m_, role, idx, band) ==
    Bind(m_, LAMBDA m :
      IF m.err = "none" /\ band.newpageafter
      THEN [ m EXCEPT !.rpt.current_offset = pagesize, !.npa = role ]
      ELSE m)

\* A band, its additional bands, and, where the code has it, newpageafter.
EmitBand(m, role, idx, band, genrow, nprow, addrow, rule, after) ==
    LET m1 == PlaceBand(m, role, idx, 0, band, genrow, nprow, rule)
        m2 == PlaceAdditional(m1, role, idx, band, addrow, 1)
    IN  IF after THEN AfterBand(m2, role, idx, band) ELSE m2

\* for i in range(lo, hi): emit bands[i]  (indices as in this module)
RECURSIVE EmitRange(_, _, _, _, _, _, _, _, _, _)
EmitRange(m_, role, bands, i, hi, genrow, nprow, addrow, rule, after) ==
    Bind(m_, LAMBDA m :
      IF i > hi \/ m.err # "none" THEN m
      ELSE EmitRange(
               EmitBand(m, role, i, bands[i], genrow, nprow, addrow, rule, after),
               role, bands, i + 1, hi, genrow, nprow, addrow, rule, after))


\* ---------------------------------------------------------------- layouts
NoKids == << >>
Els(h) == IF h = 0 THEN << >> ELSE << Txt(0, h) >>
Plain(els) == Band(els, NoKids, << >>, "", FALSE, FALSE)

\* Three names, one group level keyed on the first letter of the name, a
\* detail band of one wrapped line of height 20 per line, no page bands, and
\* 45 units between the top margin and the end of the page.  hH and hF are
\* the heights of the group header and the group footer.
ScenarioHeights == { <<0, 0>>, <<0, 4>>, <<2, 0>>, <<0, 5>>, <<2, 1>>, <<3, 0>> }
ScenarioLayout(hH, hF) ==
    [ kind |-> "scenario", pagesize |-> topmargin + bottommargin + 45,
      titleband |-> << >>, pageheader |-> << >>, reportheader |-> << >>,
      pagefooter |-> << >>,
      detailband |-> << Plain(<< Key(0, 20) >>) >>,
      reportfooter |-> << >>,
      groupheaders |-> << Band(Els(hH), NoKids, << >>, "initial", FALSE, FALSE) >>,
      groupfooters |-> << Band(Els(hF), NoKids, << >>, "initial", FALSE, FALSE) >> ]

\* Two group levels (first letter of the name, then the department), bands
\* with additional bands and a child band, page bands when pb, a keyed
\* element in the page header and the report footer when keyed, a
\* SumElement in the group footers ("gf") or the report footer ("rf"), and
\* one newpagebefore / newpageafter flag set as `flag` says.
Flags == { "", "f1npb", "f1npa", "f2npa", "h2npb", "h1npa" }
FullLayout(flag, keyed, pb, sumel) ==
    [ kind |-> "full", pagesize |-> 200,
      titleband |-> IF pb THEN << Plain(<< Txt(0, 15) >>) >> ELSE << >>,
      pageheader |-> IF pb THEN << Plain(IF keyed THEN << Txt(2, 10), Key(0, 6) >>
                                          ELSE << Txt(2, 10) >>) >>
                     ELSE << >>,
      reportheader |-> IF pb THEN << Plain(<< Txt(0, 8) >>) >> ELSE << >>,
      pagefooter |-> IF pb THEN << Plain(<< Txt(0, 10) >>) >> ELSE << >>,
      detailband |-> << Band(<< Key(0, 20) >>, << Plain(<< Txt(0, 4) >>) >>,
                             << Plain(<< Txt(0, 6) >>) >>, "", FALSE, FALSE) >>,
      reportfooter |->
          << Plain((IF keyed THEN << Txt(0, 14), Key(0, 7) >> ELSE << Txt(0, 14) >>)
                   \o (IF sumel = "rf" THEN << Sum(0, 14) >> ELSE << >>)) >>,
      groupheaders |->
          << Band(<< Txt(0, 12) >>, NoKids, << Plain(<< Txt(0, 5) >>) >>, "initial",
                  FALSE, flag = "h1npa"),
             Band(<< Txt(0, 12) >>, NoKids, << >>, "dept", flag = "h2npb", FALSE) >>,
      groupfooters |->
          << Band(<< Txt(0, 12) >> \o (IF sumel = "gf" THEN << Sum(0, 12) >> ELSE << >>),
                  NoKids, << >>, "initial", flag = "f1npb", flag = "f1npa"),
             Band(<< Txt(0, 12) >> \o (IF sumel = "gf" THEN << Sum(0, 12) >> ELSE << >>),
                  NoKids, << Plain(<< Key(0, 5) >>) >>, "dept", FALSE,
                  flag = "f2npa") >> ]

\* A report without a detail band and without group headers.
BareLayout ==
    [ kind |-> "bare", pagesize |-> 200,
      titleband |-> << >>, pageheader |-> << >>, reportheader |-> << >>,
      pagefooter |-> << >>, detailband |-> << >>,
      reportfooter |-> << Plain(<< Txt(0, 14) >>) >>,
      groupheaders |-> << >>,
      groupfooters |-> << Band(<< Txt(0, 12) >>, NoKids, << >>, "dept", FALSE, TRUE) >> ]

\* A page with 30 units between the margins and a detail band of 20 units
\* per line of the description: a description of two lines makes it taller
\* than the page.
TallLayout ==
    [ kind |-> "tall", pagesize |-> topmargin + bottommargin + 30,
      titleband |-> << >>, pageheader |-> << >>, reportheader |-> << >>,
      pagefooter |-> << >>,
      detailband |-> << Band(<< Key(0, 20) >>, NoKids, << Plain(<< Txt(0, 3) >>) >>,
                             "", FALSE, FALSE) >>,
      reportfooter |-> << Plain(<< Txt(0, 6) >>) >>,
      groupheaders |-> << Band(Els(4), NoKids, << >>, "initial", FALSE, FALSE) >>,
      groupfooters |-> << >> ]

\* Alternating backgrounds: the detail band has a background rectangle with
\* two colours, the page header and the group footer one with three.
StripedLayout ==
    [ kind |-> "striped", pagesize |-> topmargin + bottommargin + 90,
      titleband |-> << >>,
      pageheader |-> << WithBackgrounds(Plain(<< Txt(0, 10) >>),
                                        << ColourShape(0, 0, 3) >>) >>,
      reportheader |-> << >>, pagefooter |-> << >>,
      detailband |-> << WithBackgrounds(Plain(<< Key(0, 20) >>),
                                        << ColourShape(0, 0, 2) >>) >>,
      reportfooter |-> << >>,
      groupheaders |-> << >>,
      groupfooters |-> << WithBackgrounds(
                              Band(<< Txt(0, 12) >>, NoKids, << >>, "dept",
                                   FALSE, FALSE),
                              << ColourShape(0, 0, 3) >>) >> ]

Layouts ==
    { ScenarioLayout(p[1], p[2]) : p \in ScenarioHeights }
    \cup { TallLayout, StripedLayout }
    \cup { FullLayout(f, FALSE, pb, "") : f \in Flags, pb \in BOOLEAN }
    \cup { FullLayout("", TRUE, pb, "") : pb \in BOOLEAN }
    \cup { FullLayout("", FALSE, pb, s) : pb \in BOOLEAN, s \in { "gf", "rf" } }
    \cup { BareLayout }

\* ------------------------------------------------------------------- Init
\* The stand-alone SumElement as constructed: summary = 0.  args are the
\* values handed to summarize since the last getvalue, reads the getvalue
\* calls made since the last summarize (what each returned, and the args it
\* answered), calls the number of calls so far.
\* The counters of a Report after __init__, before its first generate
\* (current_offset and endofpage are first set by generate).  consumed,
\* heights and started are the records taken, the detail heights and the
\* newpage calls of the current run.
GnInit == [ pc |-> "idle", runs |-> 0, consumed |-> 0, heights |-> << >>,
            started |-> 0,
            rpt |-> [ rownumber |-> 0, pagenumber |-> 0, sum_detail_ht |-> 0,
                      avg_detail_ht |-> 0, max_detail_ht |-> 0,
                      current_offset |-> 0, endofpage |-> 0 ] ]

SeInit == [ summary |-> 0, args |-> << >>, reads |-> << >>, err |-> "none",
            calls |-> 0 ]

\* Report.__init__ and Band.__init__ / TextElement.__init__ for layout c.
Constructed(c) ==
    /\ cfg = c
    /\ pc = "idle"
    /\ consumed = 0
    /\ row = << >>
    /\ prevrow = << >>
    /\ firstrow = FALSE
    /\ lastchanged = 0
    /\ firstchanged = 0
    /\ rpt = [ pagenumber |-> 0, rownumber |-> 0, current_offset |-> 0,
               endofpage |-> 0, sum_detail_ht |-> 0, avg_detail_ht |-> 0,
               max_detail_ht |-> 0 ]
    /\ previousvalue = [ gh |-> [ i \in 1..Len(c.groupheaders) |-> None ],
                         gf |-> [ i \in 1..Len(c.groupfooters) |-> None ] ]
    /\ sums = [ gf |-> [ i \in 1..Len(c.groupfooters) |->
                           Zeros(c.groupfooters[i].elements) ],
                rf |-> IF c.reportfooter = << >> THEN << >>
                       ELSE Zeros(c.reportfooter[1].elements) ]
    /\ canvas = [ showPages |-> 0, log |-> << >>,
                  drawn |-> [ title |-> 0, pageheader |-> 0, reportheader |-> 0,
                              pagefooter |-> 0 ] ]
    /\ err = "none"
    /\ changed = [ gh |-> [ i \in 1..Len(c.groupheaders) |-> FALSE ],
                   gf |-> [ i \in 1..Len(c.groupfooters) |-> FALSE ],
                   calls |-> [ gh |-> [ i \in 1..Len(c.groupheaders) |-> 0 ],
                               gf |-> [ i \in 1..Len(c.groupfooters) |-> 0 ] ] ]
    /\ expect = [ gf |-> [ i \in 1..Len(c.groupfooters) |-> 0 ], rf |-> 0,
                  detail |-> << >> ]
    /\ npa = ""
    /\ se = SeInit
    /\ te = [ el |-> << >>, call |-> << >> ]
    /\ bg = [ band |-> << >>, call |-> << >> ]
    /\ gn = GnInit

Init == \E c \in Layouts : Constructed(c)


\* ---------------------------------------------------------------- actions
Store(m_, next) ==
    \E m \in { m_ } :
        /\ rpt' = m.rpt
        /\ sums' = m.sums
        /\ canvas' = m.canvas
        /\ err' = m.err
        /\ expect' = m.expect
        /\ npa' = m.npa
        /\ pc' = IF m.err = "none" THEN next ELSE "failed"

NGH == Len(cfg.groupheaders)
NGF == Len(cfg.groupfooters)

\* The prologue with the cursor at the top margin instead of the page height.
Begin_attop ==
    /\ pc = "idle"
    /\ rpt' = [ rpt EXCEPT !.current_offset = topmargin,
                           !.pagenumber = 0,
                           !.endofpage = pagesize - bottommargin ]
    /\ prevrow' = << >>
    /\ firstrow' = TRUE
    /\ pc' = "loop"
    /\ UNCHANGED << gn, cfg, consumed, row, lastchanged, firstchanged, previousvalue,
                    sums, canvas, err, changed, expect, npa, se, te, bg >>

\* The prologue of Report.generate.
Begin ==
    /\ pc = "idle"
    /\ rpt' = [ rpt EXCEPT !.current_offset = pagesize,
                           !.pagenumber = 0,
                           !.endofpage = pagesize - bottommargin ]
    /\ prevrow' = << >>
    /\ firstrow' = TRUE
    /\ pc' = "loop"
    /\ UNCHANGED << gn, cfg, consumed, row, lastchanged, firstchanged, previousvalue,
                    sums, canvas, err, changed, expect, npa, se, te, bg >>

\* A dropped record that still counts as a row.
SkipRecord_counted(rec) ==
    /\ pc = "loop"
    /\ consumed < MaxRecords
    /\ rowfunc(rec, consumed + 1) = << >>
    /\ consumed' = consumed + 1
    /\ row' = << >>
    /\ rpt' = [ rpt EXCEPT !.rownumber = @ + 1 ]
    /\ UNCHANGED << gn, cfg, pc, prevrow, firstrow, lastchanged, firstchanged,
                    previousvalue, sums, canvas, err, changed, expect, npa, se, te, bg >>

\* The datasource yields a record and the row function returns None for it.
SkipRecord(rec) ==
    /\ pc = "loop"
    /\ consumed < MaxRecords
    /\ rowfunc(rec, consumed + 1) = << >>
    /\ consumed' = consumed + 1
    /\ row' = << >>
    /\ UNCHANGED << gn, cfg, pc, prevrow, firstrow, lastchanged, firstchanged, rpt,
                    previousvalue, sums, canvas, err, changed, expect, npa, se, te, bg >>

\* The datasource yields a row: the row counter, and on the first row every
\* group header with its additional bands.
NextRow(rec) ==
    /\ pc = "loop"
    /\ consumed < MaxRecords
    /\ rowfunc(rec, consumed + 1) # << >>
    /\ consumed' = consumed + 1
    /\ row' = rowfunc(rec, consumed + 1)
    /\ firstrow' = FALSE
    /\ LET m0 == [ Pack EXCEPT !.rpt.rownumber = @ + 1, !.canvas.log = << >> ]
           m1 == IF firstrow
                 THEN EmitRange(m0, "groupheader", cfg.groupheaders, 1, NGH,
                                row', row', row', "plain", FALSE)
                 ELSE m0
       IN  Store(m1, "footers")
    /\ UNCHANGED << gn, cfg, prevrow, lastchanged, firstchanged, previousvalue,
                    changed, se, te, bg >>

\* The last i for which ischanged answered true (0: none).
LastChanged(flags) ==
    IF \E i \in 1..Len(flags) : flags[i]
    THEN CHOOSE i \in 1..Len(flags) :
             flags[i] /\ \A j \in (i + 1)..Len(flags) : ~flags[j]
    ELSE 0

\* firstchanged overwritten by every later change.
FirstChanged_overwritten(flags) == LastChanged(flags)

\* The first i for which ischanged answered true (0: none).
FirstChanged(flags) ==
    IF \E i \in 1..Len(flags) : flags[i]
    THEN CHOOSE i \in 1..Len(flags) : flags[i] /\ \A j \in 1..(i - 1) : ~flags[j]
    ELSE 0

\* range(lastchanged) for range(lastchanged + 1).
FooterRange_short(last) == 1..(last - 1)

\* The footers emitted for a change: range(lastchanged + 1).
FooterRange(last) == 1..last

\* ischanged on every group footer, then the footers of the closing groups.
GroupFooters ==
    /\ pc = "footers"
    /\ LET res == [ i \in 1..NGF |->
                      Band_ischanged(cfg.groupfooters[i], previousvalue.gf[i], row) ]
           flags == [ i \in 1..NGF |-> res[i].rc ]
           last == LastChanged(flags)
           hi == IF FooterRange(last) = {} THEN 0
                 ELSE CHOOSE i \in FooterRange(last) :
                          \A j \in FooterRange(last) : j <= i
       IN  /\ previousvalue' =
                 [ previousvalue EXCEPT !.gf = [ i \in 1..NGF |-> res[i].previousvalue ] ]
           /\ changed' = [ changed EXCEPT !.gf = flags,
                                          !.calls.gf = [ i \in 1..NGF |-> @[i] + 1 ] ]
           /\ lastchanged' = last
           /\ Store(IF last # 0
                    THEN EmitRange(Pack, "groupfooter", cfg.groupfooters, 1, hi,
                                   prevrow, prevrow, row, "npb", TRUE)
                    ELSE Pack,
                    "fsum")
    /\ UNCHANGED << gn, cfg, consumed, row, prevrow, firstrow, firstchanged, se, te, bg >>

\* for band in bands: band.summarize(row)  (from the i-th on)
RECURSIVE SummarizeBands(_, _, _, _)
SummarizeBands(bands, row_, i, acc_) ==
    Bind(acc_, LAMBDA acc :
      IF i > Len(bands) \/ acc.err # "none" THEN acc
      ELSE Bind(Band_summarize(bands[i], acc.sums[i], row_), LAMBDA s :
             SummarizeBands(bands, row_, i + 1,
                 [ err |-> s.err, sums |-> [ acc.sums EXCEPT ![i] = s.sums ] ])))

\* summarize on every group footer, and the detail band next.
SummarizeGroupFooters_thendetail ==
    /\ pc = "fsum"
    /\ LET s == SummarizeBands(cfg.groupfooters, row, 1,
                               [ err |-> "none", sums |-> sums.gf ])
       IN  Store([ Pack EXCEPT
                     !.sums.gf = s.sums,
                     !.err = s.err,
                     !.expect.gf = [ i \in 1..NGF |-> @[i] + row[1].amount ] ],
                 "detail")
    /\ UNCHANGED << gn, cfg, consumed, row, prevrow, firstrow, lastchanged,
                    firstchanged, previousvalue, changed, se, te, bg >>

\* summarize on every group footer.
SummarizeGroupFooters ==
    /\ pc = "fsum"
    /\ LET s == SummarizeBands(cfg.groupfooters, row, 1,
                               [ err |-> "none", sums |-> sums.gf ])
       IN  Store([ Pack EXCEPT
                     !.sums.gf = s.sums,
                     !.err = s.err,
                     !.expect.gf = [ i \in 1..NGF |-> @[i] + row[1].amount ] ],
                 "headers")
    /\ UNCHANGED << gn, cfg, consumed, row, prevrow, firstrow, lastchanged,
                    firstchanged, previousvalue, changed, se, te, bg >>

\* ischanged on every group header, then the headers of the opening groups.
GroupHeaders ==
    /\ pc = "headers"
    /\ LET res == [ i \in 1..NGH |->
                      Band_ischanged(cfg.groupheaders[i], previousvalue.gh[i], row) ]
           flags == [ i \in 1..NGH |-> res[i].rc ]
           first == FirstChanged(flags)
       IN  /\ previousvalue' =
                 [ previousvalue EXCEPT !.gh = [ i \in 1..NGH |-> res[i].previousvalue ] ]
           /\ changed' = [ changed EXCEPT !.gh = flags,
                                          !.calls.gh = [ i \in 1..NGH |-> @[i] + 1 ] ]
           /\ firstchanged' = first
           /\ Store(IF first # 0
                    THEN EmitRange(Pack, "groupheader", cfg.groupheaders, first, NGH,
                                   row, row, row, "avg", TRUE)
                    ELSE Pack,
                    "detail")
    /\ UNCHANGED << gn, cfg, consumed, row, prevrow, firstrow, lastchanged, se, te, bg >>

\* The detail-height statistics after a detail band of height ht.
DetailStats(r, ht) ==
    LET mx == Max(ht, r.max_detail_ht)
        sm == r.sum_detail_ht + ht
    IN  [ r EXCEPT !.max_detail_ht = mx,
                   !.sum_detail_ht = sm,
                   !.avg_detail_ht = ((sm \div r.rownumber) + mx) \div 2 ]

\* The detail band and its additional bands.
Detail ==
    /\ pc = "detail"
    /\ IF cfg.detailband = << >>
       THEN Store(Pack, "rfsum")
       ELSE LET band == cfg.detailband[1]
                g == Band_generate(band, Zeros(band.elements), row)
                m0 == [ Pack EXCEPT !.rpt = DetailStats(@, g.ht), !.err = g.err,
                                    !.expect.detail = Append(@, g.ht) ]
            IN  Store(EmitBand(m0, "detail", 0, band, row, row, row, "plain", FALSE),
                      "rfsum")
    /\ UNCHANGED << gn, cfg, consumed, row, prevrow, firstrow, lastchanged,
                    firstchanged, previousvalue, changed, se, te, bg >>

\* summarize on the report footer; the row becomes prevrow.
SummarizeReportFooter ==
    /\ pc = "rfsum"
    /\ LET s == IF cfg.reportfooter = << >>
                THEN [ err |-> "none", sums |-> sums.rf ]
                ELSE Band_summarize(cfg.reportfooter[1], sums.rf, row)
       IN  /\ Store([ Pack EXCEPT !.sums.rf = s.sums, !.err = s.err,
                                  !.expect.rf = @ + row[1].amount ],
                    "loop")
           /\ prevrow' = IF s.err = "none" THEN row ELSE prevrow
    /\ UNCHANGED << gn, cfg, consumed, row, firstrow, lastchanged, firstchanged,
                    previousvalue, changed, se, te, bg >>

\* The datasource is exhausted: the loop ends.
Exhausted ==
    /\ pc = "loop"
    /\ pc' = "endfooters"
    /\ canvas' = [ canvas EXCEPT !.log = << >> ]
    /\ UNCHANGED << gn, cfg, consumed, row, prevrow, firstrow, lastchanged,
                    firstchanged, rpt, previousvalue, sums, err, changed, expect,
                    npa, se, te, bg >>

\* The final group footers without the test of prevrow.
EndGroupFooters_noguard ==
    /\ pc = "endfooters"
    /\ Store(EmitRange(Pack, "groupfooter", cfg.groupfooters, 1, NGF,
                       prevrow, row, row, "npb", TRUE),
             "endreport")
    /\ UNCHANGED << gn, cfg, consumed, row, prevrow, firstrow, lastchanged,
                    firstchanged, previousvalue, changed, se, te, bg >>

\* After the loop: every group footer, if a row was processed.
EndGroupFooters ==
    /\ pc = "endfooters"
    /\ Store(IF prevrow # << >>
             THEN EmitRange(Pack, "groupfooter", cfg.groupfooters, 1, NGF,
                            prevrow, row, row, "npb", TRUE)
             ELSE Pack,
             "endreport")
    /\ UNCHANGED << gn, cfg, consumed, row, prevrow, firstrow, lastchanged,
                    firstchanged, previousvalue, changed, se, te, bg >>

\* After the loop: the report footer, if a row was processed.
EndReportFooter ==
    /\ pc = "endreport"
    /\ Store(IF prevrow # << >> /\ cfg.reportfooter # << >>
             THEN EmitBand(Pack, "reportfooter", 0, cfg.reportfooter[1],
                           row, row, row, "npb", FALSE)
             ELSE Pack,
             "close")
    /\ UNCHANGED << gn, cfg, consumed, row, prevrow, firstrow, lastchanged,
                    firstchanged, previousvalue, changed, se, te, bg >>

\* generate without its last statement: the final page is never closed.
ShowPage_never ==
    /\ pc = "close"
    /\ pc' = "close"
    /\ canvas' = canvas
    /\ UNCHANGED << gn, cfg, consumed, row, prevrow, firstrow, lastchanged,
                    firstchanged, rpt, previousvalue, sums, err, changed, expect,
                    npa, se, te, bg >>

\* canvas.showPage() at the end of generate.
ShowPage ==
    /\ pc = "close"
    /\ pc' = "done"
    /\ canvas' = [ canvas EXCEPT !.showPages = @ + 1 ]
    /\ UNCHANGED << gn, cfg, consumed, row, prevrow, firstrow, lastchanged,
                    firstchanged, rpt, previousvalue, sums, err, changed, expect,
                    npa, se, te, bg >>

Next ==
    \/ Begin
    \/ \E rec \in Records : SkipRecord(rec)
    \/ \E rec \in Records : NextRow(rec)
    \/ GroupFooters
    \/ SummarizeGroupFooters
    \/ GroupHeaders
    \/ Detail
    \/ SummarizeReportFooter
    \/ Exhausted
    \/ EndGroupFooters
    \/ EndReportFooter
    \/ ShowPage

Spec == Init /\ [][Next]_vars

\* generate is one sequential call: while a statement is left to execute, it
\* is executed.
FairSpec == Spec /\ WF_vars(Next)

\* ------------------------------------------- a SumElement used on its own
\* The values a row can yield for the summed field (<< >> is None).
SeValues == { << >>, << 1 >>, << 2 >>, << -1 >> }

RECURSIVE SeqSum(_)
SeqSum(q) == IF q = << >> THEN 0
             ELSE (IF Head(q) = << >> THEN 0 ELSE Head(q)[1]) + SeqSum(Tail(q))

\* element.summarize(row)
Se_summarize(v) ==
    /\ se.calls < MaxCalls
    /\ LET s == SumElement_summarize(se.summary, v)
       IN  se' = [ summary |-> s.summary, args |-> Append(se.args, v),
                   reads |-> << >>, err |-> s.err, calls |-> se.calls + 1 ]
    /\ UNCHANGED << gn, cfg, pc, consumed, row, prevrow, firstrow, lastchanged,
                    firstchanged, rpt, previousvalue, sums, canvas, err, changed,
                    expect, npa, te, bg >>

\* element.getvalue(row)
Se_getvalue ==
    /\ se.calls < MaxCalls
    /\ LET g == SumElement_getvalue(se.summary)
       IN  se' = [ summary |-> g.summary, args |-> << >>,
                   reads |-> Append(se.reads, [ rc |-> g.rc, args |-> se.args ]),
                   err |-> "none", calls |-> se.calls + 1 ]
    /\ UNCHANGED << gn, cfg, pc, consumed, row, prevrow, firstrow, lastchanged,
                    firstchanged, rpt, previousvalue, sums, canvas, err, changed,
                    expect, npa, te, bg >>

NextSum == (\E v \in SeValues : Se_summarize(v)) \/ Se_getvalue

SpecSum == Constructed(BareLayout) /\ [][NextSum]_vars


\* ------------------------------------------ a TextElement used on its own
\* Python values: None, a str (the sequence of its characters), an int, and
\* bytes (what x.encode("utf8") returns).
PyNone == [ t |-> "NoneType", s |-> << >>, n |-> 0 ]
PyStr(s) == [ t |-> "str", s |-> s, n |-> 0 ]
PyInt(n) == [ t |-> "int", s |-> << >>, n |-> n ]
PyBytes(s) == [ t |-> "bytes", s |-> s, n |-> 0 ]

\* The decimal digit d as a character.
Digit(d) == << "0", "1", "2", "3", "4", "5", "6", "7", "8", "9" >>[d + 1]

\* str(v), for the ints 0..9.
str(v) ==
    CASE v.t = "str" -> v
      [] v.t = "int" -> PyStr(<< Digit(v.n) >>)
      [] v.t = "bytes" -> PyStr(<< "b", "'" >> \o v.s \o << "'" >>)
      [] OTHER -> PyStr(<< "N", "o", "n", "e" >>)

\* text_conversion set to lambda x: x.encode("utf8").
text_conversion_encode(v) == PyBytes(v.s)

\* TextElement.text_conversion = str
text_conversion(v) == str(v)

\* a + b where a is a str or bytes.
PyAdd(a, b) ==
    IF a.t = b.t /\ a.t \in { "str", "bytes" }
    THEN [ err |-> "none", v |-> [ a EXCEPT !.s = a.s \o b.s ] ]
    ELSE [ err |-> "TypeError", v |-> PyNone ]

\* row[key] for a row that is None or a dict.
Subscript(row_, key) ==
    IF row_ = << >> THEN [ err |-> "TypeError", v |-> PyNone ]
    ELSE IF key \notin DOMAIN row_[1] THEN [ err |-> "KeyError", v |-> PyNone ]
    ELSE [ err |-> "none", v |-> row_[1][key] ]

\* The functions handed to TextElement as getvalue: lambda row: "F" and
\* lambda row: None.
TeFn(f, row_) == IF f = "const" THEN PyStr(<< "F" >>) ELSE PyNone

\* The functions handed to TextElement as format: str (the default) and
\* lambda x: "%.1f" % x.
TeFormat(f, v) ==
    CASE f = "str" -> [ err |-> "none", v |-> str(v) ]
      [] v.t = "int" -> [ err |-> "none", v |-> PyStr(<< Digit(v.n), ".", "0" >>) ]
      [] OTHER -> [ err |-> "TypeError", v |-> PyNone ]

\* TextElement.getvalue with the literal text tested before the key.
TextElement_getvalue_textfirst(el, row_) ==
    IF el.getvalue # None
    THEN [ err |-> "none", v |-> TeFn(el.getvalue, row_) ]
    ELSE IF el.text # PyNone
    THEN [ err |-> "none", v |-> text_conversion(el.text) ]
    ELSE IF el.key # None
    THEN LET sub == Subscript(row_, el.key)
         IN  IF sub.err # "none" THEN sub
             ELSE PyAdd(PyStr(<< >>), IF sub.v # PyNone THEN sub.v ELSE PyStr(<< >>))
    ELSE IF el.sysvar # None
    THEN IF el.report = << >> THEN [ err |-> "AttributeError", v |-> PyNone ]
         ELSE [ err |-> "none", v |-> PyInt(el.report[1]) ]
    ELSE [ err |-> "none", v |-> PyNone ]

\* TextElement.getvalue(row): the exception raised, or the value returned.
TextElement_getvalue(el, row_) ==
    IF el.getvalue # None
    THEN [ err |-> "none", v |-> TeFn(el.getvalue, row_) ]
    ELSE IF el.key # None
    THEN LET left == IF el.text # PyNone THEN text_conversion(el.text)
                     ELSE PyStr(<< >>)
             sub == Subscript(row_, el.key)
         IN  IF sub.err # "none" THEN sub
             ELSE PyAdd(left, IF sub.v # PyNone THEN sub.v ELSE PyStr(<< >>))
    ELSE IF el.text # PyNone
    THEN [ err |-> "none", v |-> text_conversion(el.text) ]
    ELSE IF el.sysvar # None
    THEN IF el.report = << >> THEN [ err |-> "AttributeError", v |-> PyNone ]
         ELSE [ err |-> "none", v |-> PyInt(el.report[1]) ]
    ELSE [ err |-> "none", v |-> PyNone ]

\* TextElement.gettext(row): the exception raised or the text returned, and
\* the values the format function was called on.
TextElement_gettext(el, row_) ==
    LET g == TextElement_getvalue(el, row_)
    IN  IF g.err # "none" THEN [ err |-> g.err, v |-> PyNone, formatted |-> << >> ]
        ELSE IF g.v = PyNone
        THEN [ err |-> "none", v |-> PyStr(<< >>), formatted |-> << >> ]
        ELSE [ err |-> TeFormat(el.format, g.v).err,
               v |-> TeFormat(el.format, g.v).v, formatted |-> << g.v >> ]

\* text.split("\n"): the segments between the newlines of s.
RECURSIVE SplitLines(_, _)
SplitLines(s, cur) ==
    IF s = << >> THEN << cur >>
    ELSE IF Head(s) = "\n" THEN << cur >> \o SplitLines(Tail(s), << >>)
    ELSE SplitLines(Tail(s), Append(cur, Head(s)))

\* simpleSplit(text, fontName, fontSize, maxWidth) under a measurement in
\* which every character is one unit wide: the text cut into lines of
\* maxWidth characters.
RECURSIVE simpleSplit(_, _)
simpleSplit(s, maxWidth) ==
    IF s = << >> THEN << >>
    ELSE IF Len(s) <= maxWidth THEN << s >>
    ELSE << SubSeq(s, 1, maxWidth) >>
         \o simpleSplit(SubSeq(s, maxWidth + 1, Len(s)), maxWidth)

\* TextRenderer.__init__ with self.height = height.
TextRenderer_oneline(text, height, width) ==
    [ lines |-> IF width = << >> THEN SplitLines(text, << >>)
                ELSE simpleSplit(text, width[1]),
      height |-> height ]

\* TextRenderer.__init__(font, text, align, height, width): the lines and
\* the height of the renderer (width << >> is None).
TextRenderer(text, height, width) ==
    [ lines |-> IF width = << >> THEN SplitLines(text, << >>)
                ELSE simpleSplit(text, width[1]),
      height |-> height * Len(IF width = << >> THEN SplitLines(text, << >>)
                              ELSE simpleSplit(text, width[1])) ]

\* self.leading as TextElement.__init__ sets it for a font of size `size`
\* (leading << >> is None): max(1, int(size * 0.4 + 0.5)).
Leading(size, leading) ==
    IF leading # << >> THEN leading[1] ELSE Max(1, (size * 4 + 5) \div 10)

\* TextElement.generate(row): the exception raised by gettext, or the
\* renderer's lines and height.
TextElement_generate(el, row_) ==
    LET g == TextElement_gettext(el, row_)
        r == TextRenderer(g.v.s, el.font + Leading(el.font, el.leading), el.width)
    IN  IF g.err # "none"
        THEN [ err |-> g.err, v |-> PyNone, lines |-> << >>, height |-> 0 ]
        ELSE [ err |-> "none", v |-> g.v, lines |-> r.lines, height |-> r.height ]

\* TextElement.__init__: the sources and the format function configured, the
\* font size font[1], the leading and the width (<< >>: None); report is the
\* Report setreference attached (<< >>: none yet), given by its pagenumber.
TeElements ==
    [ getvalue : { None, "const", "none" },
      key : { None, "phone" },
      text : { PyNone, PyStr(<< "T", ":" >>), PyInt(5) },
      sysvar : { None, "pagenumber" },
      format : { "str", "tenths" },
      report : { << >>, << 2 >> },
      font : { 8, 10 },
      leading : { << >>, << 2 >> },
      width : { << >>, << 2 >> } ]

\* The rows handed to the element: None, dicts with a phone that is a str
\* (one of them of two lines), an int or None, and a dict without a phone.
TeRows ==
    { << >>, << [ name |-> PyStr(<< "A" >>) ] >> }
    \cup { << [ name |-> PyStr(<< "A" >>), phone |-> v ] >> :
             v \in { PyStr(<< "5", "5" >>), PyStr(<< "6" >>), PyInt(7), PyNone,
                     PyStr(<< "a", "\n", "b", "c" >>) } }

\* TextElement(...)
Te_construct(el) ==
    /\ te.el = << >>
    /\ te' = [ el |-> << el >>, call |-> << >> ]
    /\ UNCHANGED << gn, cfg, pc, consumed, row, prevrow, firstrow, lastchanged,
                    firstchanged, rpt, previousvalue, sums, canvas, err, changed,
                    expect, npa, se, bg >>

\* element.getvalue(row)
Te_getvalue(row_) ==
    /\ te.el # << >>
    /\ LET g == TextElement_getvalue(te.el[1], row_)
       IN  te' = [ te EXCEPT !.call =
                     << [ op |-> "getvalue", row |-> row_, err |-> g.err, v |-> g.v,
                          formatted |-> << >> ] >> ]
    /\ UNCHANGED << gn, cfg, pc, consumed, row, prevrow, firstrow, lastchanged,
                    firstchanged, rpt, previousvalue, sums, canvas, err, changed,
                    expect, npa, se, bg >>

\* element.gettext(row)
Te_gettext(row_) ==
    /\ te.el # << >>
    /\ LET g == TextElement_gettext(te.el[1], row_)
       IN  te' = [ te EXCEPT !.call =
                     << [ op |-> "gettext", row |-> row_, err |-> g.err, v |-> g.v,
                          formatted |-> g.formatted ] >> ]
    /\ UNCHANGED << gn, cfg, pc, consumed, row, prevrow, firstrow, lastchanged,
                    firstchanged, rpt, previousvalue, sums, canvas, err, changed,
                    expect, npa, se, bg >>

\* element.generate(row)
Te_generate(row_) ==
    /\ te.el # << >>
    /\ LET g == TextElement_generate(te.el[1], row_)
       IN  te' = [ te EXCEPT !.call =
                     << [ op |-> "generate", row |-> row_, err |-> g.err, v |-> g.v,
                          lines |-> g.lines, height |-> g.height ] >> ]
    /\ UNCHANGED << gn, cfg, pc, consumed, row, prevrow, firstrow, lastchanged,
                    firstchanged, rpt, previousvalue, sums, canvas, err, changed,
                    expect, npa, se, bg >>

NextText ==
    \/ \E el \in TeElements : Te_construct(el)
    \/ \E r \in TeRows : Te_getvalue(r)
    \/ \E r \in TeRows : Te_gettext(r)
    \/ \E r \in TeRows : Te_generate(r)

SpecText == Constructed(BareLayout) /\ [][NextText]_vars


\* ------------------------------------------------ a Band used on its own
\* Element lists of bands: texts and keyed (wrapping) elements at several
\* y-offsets.
BgElements ==
    { << >>, << Txt(0, 10) >>, << Txt(3, 10), Key(0, 6) >>,
      << Key(5, 4), Txt(0, 12) >> }

\* Bands without child bands, bands with at most one of those as a child (and
\* one with a background), and bands with up to two children out of these.
BgLeaves == { Plain(els) : els \in { << Txt(0, 4) >>, << Key(1, 3) >> } }
BgChildren ==
    { Band(els, kids, << >>, "", FALSE, FALSE) :
        els \in { << >>, << Key(2, 5) >> },
        kids \in { << >> } \cup { << l >> : l \in BgLeaves } }
    \cup { WithBackgrounds(Plain(<< Txt(0, 7) >>), << Shape(1, 1) >>) }
\* The background lists of the bands: none, one, two.
BgBackgrounds == { << >>, << Shape(0, 0) >>, << Shape(2, 1), Shape(0, 3) >> }
BgBands ==
    { WithBackgrounds(Band(els, kids, << >>, "", FALSE, FALSE), bgs) :
        els \in BgElements,
        kids \in { << >> } \cup { << c >> : c \in BgChildren }
                 \cup { << c, d >> : c \in BgChildren, d \in BgChildren },
        bgs \in BgBackgrounds }

\* The rows handed to generate: None, and rows whose description wraps to
\* one or two lines.
BgRows ==
    { << >> } \cup { rowfunc([ skip |-> FALSE, val |-> v ], 1) :
                       v \in { w \in RowValues : w.name = "Alvarez" /\ w.dept = "x" } }

\* Band(...)
Bg_construct(band) ==
    /\ bg.band = << >>
    /\ bg' = [ band |-> << band >>, call |-> << >> ]
    /\ UNCHANGED << gn, cfg, pc, consumed, row, prevrow, firstrow, lastchanged,
                    firstchanged, rpt, previousvalue, sums, canvas, err, changed,
                    expect, npa, se, te >>

\* band.generate(row)
Bg_generate(row_) ==
    /\ bg.band # << >>
    /\ LET g == Band_generate(bg.band[1], Zeros(bg.band[1].elements), row_)
       IN  bg' = [ bg EXCEPT !.call =
                     << [ row |-> row_, err |-> g.err, ht |-> g.ht,
                          list |-> g.list ] >> ]
    /\ UNCHANGED << gn, cfg, pc, consumed, row, prevrow, firstrow, lastchanged,
                    firstchanged, rpt, previousvalue, sums, canvas, err, changed,
                    expect, npa, se, te >>

NextBand ==
    \/ \E b \in BgBands : Bg_construct(b)
    \/ \E r \in BgRows : Bg_generate(r)

SpecBand == Constructed(BareLayout) /\ [][NextBand]_vars

-----------------------------------------------------------------------------
\* A Report whose generate is called more than once: what the prologue of
\* generate resets and what the rows of a run do to the row counter and to
\* the detail statistics.

MaxRuns == 2

\* The heights the detail band of a row can have.
DetailHeights == { 24, 44 }

\* canvas._pagesize[1] of these runs.
GnPagesize == topmargin + bottommargin + 60

\* report.generate(canvas), up to the loop: pagenumber, current_offset and
\* endofpage are set; the row counter and the statistics are not.
Gn_generate ==
    /\ gn.pc \in { "idle", "returned" }
    /\ gn.runs < MaxRuns
    /\ gn' = [ gn EXCEPT !.pc = "rows", !.runs = @ + 1, !.heights = << >>,
                         !.consumed = 0, !.started = 0,
                         !.rpt.current_offset = GnPagesize,
                         !.rpt.pagenumber = 0,
                         !.rpt.endofpage = GnPagesize - bottommargin ]
    /\ UNCHANGED << cfg, pc, consumed, row, prevrow, firstrow, lastchanged,
                    firstchanged, rpt, previousvalue, sums, canvas, err, changed,
                    expect, npa, se, te, bg >>

\* A record the row function drops.
Gn_skip ==
    /\ gn.pc = "rows"
    /\ gn.consumed < MaxRecords
    /\ gn' = [ gn EXCEPT !.consumed = @ + 1 ]
    /\ UNCHANGED << cfg, pc, consumed, row, prevrow, firstrow, lastchanged,
                    firstchanged, rpt, previousvalue, sums, canvas, err, changed,
                    expect, npa, se, te, bg >>

\* A processed row of a report with a detail band only: the row counter,
\* the statistics, newpage if the band does not fit, and the cursor.
Gn_row(ht) ==
    /\ gn.pc = "rows"
    /\ gn.consumed < MaxRecords
    /\ LET r1 == DetailStats([ gn.rpt EXCEPT !.rownumber = @ + 1 ], ht)
           brk == NeedsNewPage("plain", Plain(<< >>), ht, r1)
           r2 == IF brk
                 THEN [ r1 EXCEPT !.pagenumber = @ + 1,
                                  !.endofpage = GnPagesize - bottommargin,
                                  !.current_offset = topmargin ]
                 ELSE r1
       IN  gn' = [ gn EXCEPT
                     !.rpt = [ r2 EXCEPT !.current_offset = @ + ht ],
                     !.consumed = @ + 1,
                     !.started = IF brk THEN @ + 1 ELSE @,
                     !.heights = Append(@, ht) ]
    /\ UNCHANGED << cfg, pc, consumed, row, prevrow, firstrow, lastchanged,
                    firstchanged, rpt, previousvalue, sums, canvas, err, changed,
                    expect, npa, se, te, bg >>

\* The datasource is exhausted and generate returns.
Gn_return ==
    /\ gn.pc = "rows"
    /\ gn' = [ gn EXCEPT !.pc = "returned" ]
    /\ UNCHANGED << cfg, pc, consumed, row, prevrow, firstrow, lastchanged,
                    firstchanged, rpt, previousvalue, sums, canvas, err, changed,
                    expect, npa, se, te, bg >>

NextRuns ==
    \/ Gn_generate
    \/ Gn_skip
    \/ \E ht \in DetailHeights : Gn_row(ht)
    \/ Gn_return

SpecRuns == Constructed(BareLayout) /\ [][NextRuns]_vars


\* ----------------------------------------------------------------- claims
\* The bands generate placed for the current row (after the loop: for the
\* final footers), without the page bands newpage rendered.
IsMain(e) == e.rule # "page"
MainLog == SelectSeq(canvas.log, IsMain)
\* Of those, the bands themselves (not their additional bands).
IsOwn(e) == e.rule # "page" /\ e.sub = 0
OwnLog == SelectSeq(canvas.log, IsOwn)
IsFooter(e) == e.rule # "page" /\ e.sub = 0 /\ e.role = "groupfooter"
FooterLog == SelectSeq(canvas.log, IsFooter)
BandNames(q) == [ k \in 1..Len(q) |-> << q[k].role, q[k].idx >> ]
SumIdx(band) == { j \in 1..Len(band.elements) : band.elements[j].type = "sum" }
InRow == pc \in { "footers", "fsum", "headers", "detail", "rfsum" }

\* C1: ischanged answers false on the first row a band processes, and on
\* every later row true exactly when the row's group key differs from the
\* key of the row processed before it.  (Read after the ischanged calls of a
\* row: prevrow is still the row before.)
C1_ChangedIffKeyDiffers ==
    /\ pc = "fsum" =>
         \A i \in 1..NGF :
             changed.gf[i] =
                 (/\ prevrow # << >>
                  /\ Band_getvalue(cfg.groupfooters[i], prevrow)
                       # Band_getvalue(cfg.groupfooters[i], row))
    /\ pc = "detail" =>
         \A i \in 1..NGH :
             changed.gh[i] =
                 (/\ prevrow # << >>
                  /\ Band_getvalue(cfg.groupheaders[i], prevrow)
                       # Band_getvalue(cfg.groupheaders[i], row))

\* C2: a getvalue that follows summarize calls with values v1..vN returns
\* v1 + ... + vN, and a getvalue right after a getvalue returns 0.
C2_ReadIsSumThenZero ==
    \A k \in 1..Len(se.reads) : se.reads[k].rc = SeqSum(se.reads[k].args)

\* C3: a group footer shows the sum over the rows handed to summarize since
\* it was last emitted: every total it prints is that sum, and its
\* accumulator holds that sum at every moment in between.
C3_FooterShowsGroupSum ==
    /\ \A k \in 1..Len(FooterLog) :
           \A j \in 1..Len(FooterLog[k].shown) :
               FooterLog[k].shown[j] = FooterLog[k].expected
    /\ \A i \in 1..NGF :
           \A j \in SumIdx(cfg.groupfooters[i]) : sums.gf[i][j] = expect.gf[i]

\* C4: the report footer is summarized once per processed row and shows the
\* sum over all processed rows: its accumulator holds the sum of the rows
\* that reached its summarize, and the total it prints is that sum.
C4_ReportFooterShowsGrandTotal ==
    /\ \A k \in 1..Len(OwnLog) :
           OwnLog[k].role = "reportfooter" =>
               \A j \in 1..Len(OwnLog[k].shown) :
                   OwnLog[k].shown[j] = OwnLog[k].expected
    /\ cfg.reportfooter # << >> =>
           \A j \in SumIdx(cfg.reportfooter[1]) : sums.rf[j] = expect.rf

\* C5: while no row has been processed (no records, or only dropped ones)
\* generate does not fail and nothing is generated or rendered; no page is
\* started, and at the end exactly one showPage was made.
C5_EmptyDatasource ==
    rpt.rownumber = 0 =>
        /\ pc # "failed"
        /\ canvas.log = << >>
        /\ rpt.pagenumber = 0
        /\ canvas.showPages = (IF pc = "done" THEN 1 ELSE 0)

C5_Witness ==
    /\ pc = "done"
    /\ rpt.rownumber = 0
    /\ consumed >= 1
    /\ canvas.showPages = 1

\* The test the claim C6 gives for every band.
C6_ClaimedTest(e) == e.npb \/ e.before + e.ht >= e.eop

\* C6 as claimed: a new page is started before a band exactly when
\* current_offset + height >= endofpage or the band has newpagebefore.
C6_Original ==
    \A k \in 1..Len(MainLog) : MainLog[k].brk = C6_ClaimedTest(MainLog[k])

\* The test by the kind of band: group footers and the report footer honour
\* newpagebefore; a group header emitted on a key change honours it and
\* reserves the detail-height average; the detail band, additional bands and
\* the group headers of the first row test the height alone.
C6_TestByBand(e) ==
    CASE e.sub > 0 \/ e.role = "detail" -> e.before + e.ht >= e.eop
      [] e.role \in { "groupfooter", "reportfooter" } ->
           e.npb \/ e.before + e.ht >= e.eop
      [] e.role = "groupheader" ->
           IF rpt.rownumber = 1 THEN e.before + e.ht >= e.eop
           ELSE e.npb \/ e.before + e.ht + e.avg >= e.eop

\* C6 as amended: newpage is called before a band exactly when the test for
\* its kind of band holds; without it the band is rendered at current_offset
\* on the current page; either way the cursor then stands at the offset the
\* band was rendered at plus its height.
C6_PageBreakByBand ==
    \A k \in 1..Len(MainLog) :
        LET e == MainLog[k]
        IN  /\ e.brk = C6_TestByBand(e)
            /\ ~e.brk => e.at = e.before
            /\ k > 1 => e.page = MainLog[k - 1].page + (IF e.brk THEN 1 ELSE 0)
            /\ IF k < Len(MainLog)
               THEN MainLog[k + 1].afternpa = "" =>
                        MainLog[k + 1].before = e.at + e.ht
               ELSE (npa = "" /\ err = "none") => rpt.current_offset = e.at + e.ht

\* A group header got a new page for the reserved detail height alone, and
\* a group header with newpagebefore was placed on the first row without one.
C6_Witness ==
    \E k \in 1..Len(MainLog) :
        LET e == MainLog[k]
        IN  /\ e.role = "groupheader" /\ e.sub = 0
            /\ \/ e.brk /\ ~e.npb /\ e.before + e.ht < e.eop
               \/ ~e.brk /\ e.npb

\* The scenario of C7: three names, one group level keyed on the first
\* letter, detail bands of height 20, 45 units from the top margin to the
\* end of the page.
IsScenario == cfg.kind = "scenario"
HeaderHt == Band_generate(cfg.groupheaders[1], Zeros(cfg.groupheaders[1].elements),
                          << >>).ht
FooterHt == Band_generate(cfg.groupfooters[1], Zeros(cfg.groupfooters[1].elements),
                          << >>).ht
\* Every detail band so far, and the current row's, is 20 units high.
AllTwenty == rpt.max_detail_ht <= 20 /\ (row # << >> => row[1].lines = 1)

\* No page break during rows 1 and 2, one during row 3 (its detail band is
\* on page 2), and two pages at the end.
C7_OneBreakBeforeRowThree ==
    /\ (InRow /\ rpt.rownumber <= 2) => rpt.pagenumber = 1
    /\ (pc = "rfsum" /\ rpt.rownumber = 3) =>
           /\ rpt.pagenumber = 2
           /\ \E k \in 1..Len(MainLog) : MainLog[k].brk
    /\ (pc = "done" /\ rpt.rownumber = 3) => rpt.pagenumber = 2

\* C7 as claimed: in the scenario, whatever the group bands look like.
C7_Original == (IsScenario /\ AllTwenty) => C7_OneBreakBeforeRowThree

\* C7 as amended: in the scenario, when twice the height of the group header
\* plus the height of the group footer is less than 5, exactly one page
\* break occurs, between row 2 and row 3, and the page counter ends at 2.
C7_ScenarioSmallGroupBands ==
    (IsScenario /\ AllTwenty /\ 2 * HeaderHt + FooterHt < 5) =>
        C7_OneBreakBeforeRowThree

C7_Witness ==
    /\ IsScenario /\ AllTwenty /\ 2 * HeaderHt + FooterHt < 5
    /\ HeaderHt > 0
    /\ pc = "done" /\ rpt.rownumber = 3 /\ rpt.pagenumber = 2

PageHeaderHt(p) ==
    IF \E k \in 1..Len(canvas.log) :
           canvas.log[k].role = "pageheader" /\ canvas.log[k].page = p
    THEN LET k == CHOOSE j \in 1..Len(canvas.log) :
                      canvas.log[j].role = "pageheader" /\ canvas.log[j].page = p
         IN  canvas.log[k].ht
    ELSE 0

AllHeaders == [ i \in 1..NGH |-> << "groupheader", i >> ]

\* C9: on the first processed row every group header is emitted exactly
\* once, in list order, before the detail band, from that row, and no group
\* footer is emitted.
C9_FirstRowHeaders ==
    rpt.rownumber = 1 =>
        /\ pc \in { "footers", "fsum", "headers", "detail" } =>
               BandNames(OwnLog) = AllHeaders
        /\ pc = "rfsum" =>
               /\ BandNames(OwnLog) =
                      AllHeaders \o (IF cfg.detailband = << >> THEN << >>
                                     ELSE << << "detail", 0 >> >>)
               /\ \A k \in 1..Len(OwnLog) : OwnLog[k].rown = RowN(row)

C9_Witness ==
    /\ rpt.rownumber = 1 /\ pc = "rfsum"
    /\ NGH = 2 /\ NGF = 2
    /\ row[1].dept = None
    /\ Len(OwnLog) = 3

\* The highest i for which ischanged answered true on this row (0: none).
HighestChanged ==
    IF \E i \in 1..NGF : changed.gf[i]
    THEN CHOOSE i \in 1..NGF : changed.gf[i] /\ \A j \in 1..NGF : changed.gf[j] => j <= i
    ELSE 0

\* C10: the group footers emitted for a row are those of index 1 to the
\* highest index whose key changed (the code's 0..lastchanged), each once,
\* in ascending order; none when no key changed.
C10_FootersUpToLastChanged ==
    pc = "fsum" =>
        BandNames(FooterLog) = [ i \in 1..HighestChanged |-> << "groupfooter", i >> ]

\* The inner key changed and the outer did not: both footers are emitted.
C10_Witness ==
    /\ pc = "fsum"
    /\ NGF = 2
    /\ ~changed.gf[1] /\ changed.gf[2]
    /\ Len(FooterLog) = 2

\* The group headers among the bands placed for the current row.
IsHeader(e) == e.rule # "page" /\ e.sub = 0 /\ e.role = "groupheader"
HeaderLog == SelectSeq(canvas.log, IsHeader)

\* The lowest i for which a group header's ischanged answered true on this
\* row (0: none).
LowestChanged ==
    IF \E i \in 1..NGH : changed.gh[i]
    THEN CHOOSE i \in 1..NGH : changed.gh[i] /\ \A j \in 1..NGH : changed.gh[j] => i <= j
    ELSE 0

\* C11: on every row after the first the group headers emitted are those of
\* index firstchanged to the last (firstchanged the lowest index whose key
\* changed), each once, in ascending order, from the current row; none when
\* no header key changed.
C11_HeadersFromFirstChanged ==
    (pc = "detail" /\ prevrow # << >>) =>
        /\ BandNames(HeaderLog) =
               (IF LowestChanged = 0 THEN << >>
                ELSE [ k \in 1..(NGH - LowestChanged + 1) |->
                         << "groupheader", LowestChanged + k - 1 >> ])
        /\ \A k \in 1..Len(HeaderLog) : HeaderLog[k].rown = RowN(row)

\* The outer key changed and the inner did not: both headers are emitted.
C11_Witness ==
    /\ pc = "detail" /\ prevrow # << >>
    /\ NGH = 2
    /\ changed.gh[1] /\ ~changed.gh[2]
    /\ Len(HeaderLog) = 2

\* C12: at a group break everything emitted for the closing group (the
\* group footers, their additional bands, the page bands of a page break
\* they trigger) is generated from the previous row, and the group headers
\* of the opening group and their additional bands from the current row.
C12_ClosingFromPrevOpeningFromRow ==
    /\ (pc = "fsum" /\ prevrow # << >>) =>
           \A k \in 1..Len(canvas.log) : canvas.log[k].rown = RowN(prevrow)
    /\ (pc = "detail" /\ prevrow # << >>) =>
           \A k \in 1..Len(MainLog) :
               MainLog[k].role = "groupheader" => MainLog[k].rown = RowN(row)

\* C13: when at least one row was processed, after the datasource is
\* exhausted generate does not fail, and by the time the page is closed
\* every group footer was emitted once in list order, then the report
\* footer once, all of them (with their additional bands and page bands)
\* generated from the last processed row, also after dropped trailing
\* records.
C13_FinalFootersFromLastRow ==
    /\ (prevrow # << >> /\ row = << >>) => pc # "failed"
    /\ (pc \in { "close", "done" } /\ prevrow # << >>) =>
           /\ BandNames(OwnLog) =
                  [ i \in 1..NGF |-> << "groupfooter", i >> ]
                  \o (IF cfg.reportfooter = << >> THEN << >>
                      ELSE << << "reportfooter", 0 >> >>)
           /\ \A k \in 1..Len(canvas.log) : canvas.log[k].rown = RowN(prevrow)
    /\ (pc = "done" /\ prevrow # << >>) => canvas.showPages = rpt.pagenumber

\* C14: a step in which the row function returns None for the record
\* changes none of the row counter, the page counter, the cursor, the end of
\* the page, the detail-height statistics, the group-key baselines, the
\* accumulators and the remembered previous row, renders nothing, and
\* leaves generate in the loop.
C14_SkippedRecordChangesNothing ==
    [][ (pc = "loop" /\ consumed' = consumed + 1 /\ row' = << >>) =>
            /\ pc' = "loop"
            /\ UNCHANGED << rpt, previousvalue, sums, prevrow, canvas, firstrow,
                            err >> ]_vars

\* A record was dropped after rows were processed and a page was started.
C14_Witness ==
    /\ pc = "loop" /\ row = << >>
    /\ consumed = rpt.rownumber + 1
    /\ rpt.rownumber >= 1 /\ rpt.pagenumber >= 1
    /\ prevrow # << >>

\* The page bands rendered for the current row.
PageBandsOn(role, p) ==
    { k \in 1..Len(canvas.log) : canvas.log[k].role = role /\ canvas.log[k].page = p }

\* C15: while generate has not been ended by an exception, the page header
\* and the page footer (where configured) have been rendered once per
\* started page, each on the page newpage started, and the title band and
\* the report header once, on page 1, however many pages were started.
C15_PageBandsPerPage ==
    err = "none" =>
        /\ canvas.drawn.pageheader =
               (IF cfg.pageheader = << >> THEN 0 ELSE rpt.pagenumber)
        /\ canvas.drawn.pagefooter =
               (IF cfg.pagefooter = << >> THEN 0 ELSE rpt.pagenumber)
        /\ canvas.drawn.title =
               (IF cfg.titleband = << >> \/ rpt.pagenumber = 0 THEN 0 ELSE 1)
        /\ canvas.drawn.reportheader =
               (IF cfg.reportheader = << >> \/ rpt.pagenumber = 0 THEN 0 ELSE 1)
        /\ \A k \in 1..Len(canvas.log) :
               /\ canvas.log[k].role \in { "title", "reportheader" } =>
                      canvas.log[k].page = 1
               /\ canvas.log[k].role \in { "pageheader", "pagefooter" } =>
                      Cardinality(PageBandsOn(canvas.log[k].role,
                                              canvas.log[k].page)) = 1

\* Three pages were started in a report with all four page bands.
C15_Witness ==
    /\ err = "none" /\ pc = "done"
    /\ rpt.pagenumber >= 3
    /\ cfg.titleband # << >> /\ cfg.reportheader # << >>
    /\ canvas.drawn.pageheader = rpt.pagenumber
    /\ canvas.drawn.title = 1

\* The last call made on the stand-alone TextElement was `op`.
TeCalled(op) == te.call # << >> /\ te.call[1].op = op
TeEl == te.el[1]
TeCall == te.call[1]

\* What a source yields on its own for the row (the keyed value counting a
\* null as the empty string).
TeKeyed(row_) ==
    IF Subscript(row_, "phone").v = PyNone THEN PyStr(<< >>)
    ELSE Subscript(row_, "phone").v

TeTextOnly ==
    /\ TeEl.getvalue = None /\ TeEl.key = None
    /\ TeEl.text.t = "str" /\ TeEl.format = "str"

\* C17: gettext of an element configured with a literal text only returns
\* that text, without raising, for every row (None included): no two rows
\* yield different texts.
C17_LiteralTextWhateverTheRow ==
    (TeCalled("gettext") /\ TeTextOnly) =>
        TeCall.err = "none" /\ TeCall.v = TeEl.text

C17_Witness ==
    /\ TeCalled("gettext") /\ TeTextOnly /\ TeEl.sysvar = None
    /\ TeCall.row # << >> /\ "phone" \in DOMAIN TeCall.row[1]
    /\ TeCall.row[1].phone = PyInt(7)
    /\ TeCall.v = PyStr(<< "T", ":" >>)

\* The element has no literal text and its value is missing for the row: its
\* value function returns None, or its key is absent from the row or null.
TeMissing ==
    /\ TeEl.text = PyNone
    /\ \/ TeEl.getvalue = "none"
       \/ /\ TeEl.getvalue = None /\ TeEl.key # None
          /\ TeCall.row # << >>
          /\ \/ TeEl.key \notin DOMAIN TeCall.row[1]
             \/ TeCall.row[1][TeEl.key] = PyNone

\* C18: gettext of an element whose value is missing returns the empty text,
\* without raising and without calling the format function.
C18_MissingValueIsEmptyText ==
    (TeCalled("gettext") /\ TeMissing) =>
        /\ TeCall.err = "none"
        /\ TeCall.v = PyStr(<< >>)
        /\ TeCall.formatted = << >>

BgBand == bg.band[1]
BgCall == bg.call[1]
BgGenerated == bg.band # << >> /\ bg.call # << >> /\ BgCall.err = "none"

\* Heights of the band's own elements and of its child bands for the row.
OwnBottoms(band, row_) ==
    { ElementGenerate(band.elements[i], 0, row_).height + band.elements[i].posy :
        i \in 1..Len(band.elements) }
OwnMax(band, row_) ==
    IF OwnBottoms(band, row_) = {} THEN 0
    ELSE CHOOSE h \in OwnBottoms(band, row_) : \A g \in OwnBottoms(band, row_) : g <= h
ChildOf(band, row_, k) ==
    Band_generate(band.childbands[k], Zeros(band.childbands[k].elements), row_)
RECURSIVE ChildHts(_, _, _)
ChildHts(band, row_, k) ==
    IF k = 0 THEN 0 ELSE ChildHts(band, row_, k - 1) + ChildOf(band, row_, k).ht

\* The renderers of the own elements, then those of each child band in
\* declaration order, child k moved down by the own maximum plus the
\* heights of the children before it.
RECURSIVE ChildLists(_, _, _)
ChildLists(band, row_, k) ==
    IF k = 0 THEN << >>
    ELSE ChildLists(band, row_, k - 1)
         \o [ j \in 1..Len(ChildOf(band, row_, k).list) |->
                [ ChildOf(band, row_, k).list[j] EXCEPT
                    !.pos = @ + OwnMax(band, row_) + ChildHts(band, row_, k - 1) ] ]
OwnList(band, row_) ==
    [ i \in 1..Len(band.elements) |->
        [ el |-> band.elements[i], pos |-> band.elements[i].posy,
          height |-> ElementGenerate(band.elements[i], 0, row_).height ] ]

\* The returned renderers after those of the band's own backgrounds.
Foreground == SubSeq(BgCall.list, Len(BgBand.backgrounds) + 1, Len(BgCall.list))

\* C20: Band.generate returns as height the maximum over the own elements of
\* height + y-offset (0 without elements) plus the heights of all child
\* bands, and as renderers the own ones followed by those of the children in
\* declaration order, the k-th child's moved down by the own maximum plus
\* the heights of children 1..k-1.
C20_HeightAndChildOffsets ==
    BgGenerated =>
        /\ BgCall.ht = OwnMax(BgBand, BgCall.row)
                       + ChildHts(BgBand, BgCall.row, Len(BgBand.childbands))
        /\ Foreground = OwnList(BgBand, BgCall.row)
                        \o ChildLists(BgBand, BgCall.row, Len(BgBand.childbands))

\* Two children, the first with a child of its own, under own elements at
\* different offsets, for a row that wraps to two lines.
C20_Witness ==
    /\ BgGenerated
    /\ Len(BgBand.childbands) = 2
    /\ Len(BgBand.childbands[1].childbands) = 1
    /\ Len(BgBand.elements) = 2
    /\ BgCall.row # << >> /\ BgCall.row[1].lines = 2
    /\ Len(Foreground) >= 5
    /\ BgCall.ht > OwnMax(BgBand, BgCall.row)

\* The lists with the same entries in another order.
Reorderings(q) ==
    { [ i \in 1..Len(q) |-> q[p[i]] ] :
        p \in { f \in [ 1..Len(q) -> 1..Len(q) ] :
                  \A i, j \in 1..Len(q) : f[i] = f[j] => i = j } }

\* The height generate returns for a band and the row of the call.
HtOf(band) == Band_generate(band, Zeros(band.elements), BgCall.row).ht

\* The child bands appended: those of the bands above, and Band([]), as far
\* as their generate returns for the row of the call.
Appended ==
    { c \in BgChildren \cup { Plain(<< >>) } :
        Band_generate(c, Zeros(c.elements), BgCall.row).err = "none" }
WithChild(band, c) == [ band EXCEPT !.childbands = Append(@, c) ]

\* The height is the same for every order of the band's elements.
C21_SameForPermutations ==
    \A q \in Reorderings(BgBand.elements) :
        HtOf([ BgBand EXCEPT !.elements = q ]) = BgCall.ht

\* C21 as claimed: the height is the same for every permutation of the
\* elements and strictly greater with any child band appended.
C21_Original ==
    BgGenerated =>
        /\ C21_SameForPermutations
        /\ \A c \in Appended : HtOf(WithChild(BgBand, c)) > BgCall.ht

\* C21 as amended: the height is the same for every permutation of the
\* elements; an appended child band adds its own height, so the height
\* never decreases and strictly increases exactly when the child's height
\* is positive.
C21_PermutationsAndAppendedChild ==
    BgGenerated =>
        /\ C21_SameForPermutations
        /\ \A c \in Appended :
               /\ HtOf(WithChild(BgBand, c)) = BgCall.ht + HtOf(c)
               /\ HtOf(c) >= 0
               /\ (HtOf(WithChild(BgBand, c)) > BgCall.ht) = (HtOf(c) > 0)

\* A band whose two elements end at different heights, the lower one first,
\* with children already.
C21_Witness ==
    /\ BgGenerated
    /\ BgBand.elements = << Key(5, 4), Txt(0, 12) >>
    /\ BgCall.row[1].lines = 2
    /\ Len(BgBand.childbands) = 2
    /\ BgCall.ht > 13
    /\ HtOf(WithChild(BgBand, Plain(<< >>))) = BgCall.ht

\* C22: for a band with backgrounds generate returns the height it returns
\* without them, and its list is the backgrounds' renderers in declared
\* order, each with height (band height, child bands included) - y-anchor -
\* bottom margin, followed by the list it returns without backgrounds.
C22_BackgroundsFirst ==
    (BgGenerated /\ Len(BgBand.backgrounds) > 0) =>
        LET plain == Band_generate(WithBackgrounds(BgBand, << >>),
                                   Zeros(BgBand.elements), BgCall.row)
        IN  /\ BgCall.ht = plain.ht
            /\ BgCall.ht = OwnMax(BgBand, BgCall.row)
                           + ChildHts(BgBand, BgCall.row, Len(BgBand.childbands))
            /\ Foreground = plain.list
            /\ \A k \in 1..Len(BgBand.backgrounds) :
                   /\ BgCall.list[k].el = BgBand.backgrounds[k]
                   /\ BgCall.list[k].pos = BgBand.backgrounds[k].posy
                   /\ BgCall.list[k].height =
                          BgCall.ht - BgBand.backgrounds[k].posy
                          - BgBand.backgrounds[k].bottomMargin

\* Two backgrounds on a band with own elements and two children.
C22_Witness ==
    /\ BgGenerated
    /\ Len(BgBand.backgrounds) = 2
    /\ Len(BgBand.childbands) = 2 /\ Len(BgBand.elements) = 2
    /\ BgCall.list[1].el = Shape(2, 1)
    /\ BgCall.list[2].el = Shape(0, 3)
    /\ BgCall.list[1].height = BgCall.ht - 3
    /\ BgCall.ht > OwnMax(BgBand, BgCall.row)

\* The height between the margins of a page.
Printable == pagesize - topmargin - bottommargin

\* C23: a band taller than the printable area does not end generate; one
\* page is started for it, it is placed on that page although it passes the
\* end of the page, and the band placed next finds the page counter where
\* the tall band left it.
C23_TallBandOnePageBreak ==
    /\ cfg.kind = "tall" => pc # "failed"
    /\ \A k \in 1..Len(MainLog) :
           LET e == MainLog[k]
           IN  e.ht > Printable =>
                   /\ e.brk
                   /\ e.page = e.pagebefore + 1
                   /\ e.at >= topmargin
                   /\ e.at + e.ht > pagesize - bottommargin
                   /\ IF k < Len(MainLog) THEN MainLog[k + 1].pagebefore = e.page
                      ELSE rpt.pagenumber = e.page

\* A detail band of 40 units on a page of 30 was placed on a new page, and
\* the additional band after it on the next.
C23_Witness ==
    /\ cfg.kind = "tall" /\ pc = "rfsum" /\ rpt.rownumber >= 2
    /\ \E k \in 1..(Len(MainLog) - 1) :
           /\ MainLog[k].role = "detail" /\ MainLog[k].ht = 40
           /\ MainLog[k].page = MainLog[k].pagebefore + 1
           /\ MainLog[k + 1].brk
           /\ MainLog[k + 1].page = MainLog[k].page + 1

\* The text of the last generate call, its width in the one-unit-per-
\* character measurement, and the number of its newlines.
TeText == TeCall.v.s
Newlines(q) == Cardinality({ k \in 1..Len(q) : q[k] = "\n" })
CeilDiv(a, b) == (a + b - 1) \div b

\* C24: the renderer of an element with a width, for a text wider than the
\* width, has ceil(text width / width) lines; without a width it has one
\* line per newline-separated segment; its height is the number of lines
\* times (font size + leading).
C24_LinesAndHeight ==
    (TeCalled("generate") /\ TeCall.err = "none") =>
        /\ (TeEl.width # << >> /\ Len(TeText) > TeEl.width[1]) =>
               Len(TeCall.lines) = CeilDiv(Len(TeText), TeEl.width[1])
        /\ TeEl.width = << >> => Len(TeCall.lines) = Newlines(TeText) + 1
        /\ TeCall.height =
               Len(TeCall.lines)
               * (TeEl.font + (IF TeEl.leading = << >>
                               THEN (IF TeEl.font = 8 THEN 3 ELSE 4)
                               ELSE TeEl.leading[1]))

\* A text of three characters in a width of two: two lines of 10 + 4 units.
C24_Witness ==
    /\ TeCalled("generate") /\ TeCall.err = "none"
    /\ TeEl.width = << 2 >> /\ TeEl.font = 10 /\ TeEl.leading = << >>
    /\ TeText = << "T", ":", "6" >>
    /\ Len(TeCall.lines) = 2
    /\ TeCall.height = 28

\* The bands a step added to the canvas log, page bands left out.
Added == { canvas'.log[k] : k \in (Len(canvas.log) + 1)..Len(canvas'.log) }
AddedRoles == { e.role : e \in { f \in Added : f.rule # "page" } }

\* C25: the steps of a row follow each other in the order group footers,
\* summarize of the group footers, group headers, detail band, summarize of
\* the report footer (a step may end generate with an exception instead);
\* each step places bands of its own kind only; the next record is taken
\* only after the report-footer summarize, which makes the row the previous
\* row.
C25_StepsInOrder ==
    [][ /\ pc' = "footers" => pc = "loop"
        /\ consumed' # consumed => pc = "loop"
        /\ pc = "footers" =>
               /\ pc' \in { "fsum", "failed" }
               /\ AddedRoles \subseteq { "groupfooter" }
        /\ pc = "fsum" =>
               /\ pc' \in { "headers", "failed" }
               /\ canvas' = canvas
               /\ \A i \in 1..NGF : expect'.gf[i] = expect.gf[i] + row[1].amount
        /\ pc = "headers" =>
               /\ pc' \in { "detail", "failed" }
               /\ AddedRoles \subseteq { "groupheader" }
        /\ pc = "detail" =>
               /\ pc' \in { "rfsum", "failed" }
               /\ AddedRoles \subseteq { "detail" }
        /\ pc = "rfsum" =>
               /\ pc' \in { "loop", "failed" }
               /\ canvas' = canvas
               /\ expect'.rf = expect.rf + row[1].amount
               /\ pc' = "loop" => prevrow' = row ]_vars

\* A row with a key change went through all five steps: footers, headers
\* and a detail band were placed in this order and the row is the previous
\* row now.
C25_Witness ==
    /\ pc = "loop" /\ rpt.rownumber >= 2 /\ prevrow = row /\ row # << >>
    /\ \E a, b, c \in 1..Len(OwnLog) :
           /\ a < b /\ b < c
           /\ OwnLog[a].role = "groupfooter"
           /\ OwnLog[b].role = "groupheader"
           /\ OwnLog[c].role = "detail"
    /\ expect.rf >= 2

\* C26: ischanged is called once per processed row on every group footer
\* and on every group header, the first row included: while a row is being
\* processed the footers have one call per row so far and the headers get
\* theirs in the header step; between rows every band has one call per
\* processed row and its previousvalue is the key of the last row.
C26_IschangedOncePerRow ==
    /\ pc \in { "fsum", "headers" } =>
           /\ \A i \in 1..NGF : changed.calls.gf[i] = rpt.rownumber
           /\ \A i \in 1..NGH : changed.calls.gh[i] = rpt.rownumber - 1
           /\ \A i \in 1..NGF :
                  previousvalue.gf[i] = Band_getvalue(cfg.groupfooters[i], row)
    /\ pc \in { "detail", "rfsum" } =>
           /\ \A i \in 1..NGF : changed.calls.gf[i] = rpt.rownumber
           /\ \A i \in 1..NGH : changed.calls.gh[i] = rpt.rownumber
    /\ pc \in { "loop", "endfooters", "endreport", "close", "done" } =>
           /\ \A i \in 1..NGF : changed.calls.gf[i] = rpt.rownumber
           /\ \A i \in 1..NGH : changed.calls.gh[i] = rpt.rownumber
           /\ prevrow # << >> =>
                  /\ \A i \in 1..NGF :
                         previousvalue.gf[i]
                             = Band_getvalue(cfg.groupfooters[i], prevrow)
                  /\ \A i \in 1..NGH :
                         previousvalue.gh[i]
                             = Band_getvalue(cfg.groupheaders[i], prevrow)

\* Two rows were processed by a report with two group levels; no key
\* changed on the second.
C26_Witness ==
    /\ pc = "loop" /\ rpt.rownumber = 2 /\ NGF = 2 /\ NGH = 2
    /\ \A i \in 1..2 : changed.calls.gf[i] = 2 /\ changed.calls.gh[i] = 2
    /\ \A i \in 1..2 : ~changed.gf[i] /\ ~changed.gh[i]
    /\ previousvalue.gh[1] = "B" /\ previousvalue.gh[2] = "x"

\* The detail-height average the code holds after detail bands of the
\* heights q, one per processed row.
RECURSIVE SumOf(_)
SumOf(q) == IF q = << >> THEN 0 ELSE Head(q) + SumOf(Tail(q))
MaxOf(q) == IF q = << >> THEN 0
            ELSE CHOOSE h \in { q[k] : k \in 1..Len(q) } :
                     \A k \in 1..Len(q) : q[k] <= h
AvgOf(q) == IF q = << >> THEN 0 ELSE ((SumOf(q) \div Len(q)) + MaxOf(q)) \div 2

\* C27: a group header emitted on a key change starts a new page exactly
\* when it has newpagebefore or current_offset + height + average >=
\* endofpage, the average being that of the detail bands of the rows before
\* the current one.
C27_HeaderReservesEarlierAverage ==
    (pc = "detail" /\ prevrow # << >>) =>
        \A k \in 1..Len(HeaderLog) :
            LET e == HeaderLog[k]
            IN  /\ e.avg = AvgOf(expect.detail)
                /\ cfg.detailband # << >> => Len(expect.detail) = rpt.rownumber - 1
                /\ e.brk = (e.npb \/ e.before + e.ht + e.avg >= e.eop)

\* A header without newpagebefore that would have fitted got a new page for
\* the average of the two detail bands before it.
C27_Witness ==
    /\ pc = "detail" /\ rpt.rownumber = 3
    /\ expect.detail = << 24, 44 >>
    /\ \E k \in 1..Len(HeaderLog) :
           /\ HeaderLog[k].avg = 39
           /\ HeaderLog[k].brk /\ ~HeaderLog[k].npb
           /\ HeaderLog[k].before + HeaderLog[k].ht < HeaderLog[k].eop

\* C28: after the detail band of the n-th processed row of a generation the
\* maximum is the largest detail height of that generation and the average
\* is ((sum of the detail heights of that generation div n) + maximum) div 2.
C28_DetailStatistics ==
    (gn.pc = "rows" /\ gn.heights # << >>) =>
        /\ gn.rpt.max_detail_ht = MaxOf(gn.heights)
        /\ gn.rpt.avg_detail_ht =
               ((SumOf(gn.heights) \div Len(gn.heights)) + MaxOf(gn.heights))
               \div 2

\* The page bands rendered above the cursor of page p, and their heights.
TopBands(p) ==
    { k \in 1..Len(canvas.log) :
        /\ canvas.log[k].role \in { "title", "pageheader", "reportheader" }
        /\ canvas.log[k].page = p }
RECURSIVE HtSum(_)
HtSum(ks) == IF ks = {} THEN 0
             ELSE LET k == CHOOSE j \in ks : TRUE
                  IN  canvas.log[k].ht + HtSum(ks \ { k })

\* C29: a band placed right after newpage is at the top margin plus the
\* heights of the title band, page header and report header rendered on its
\* page; a page footer is rendered at page height - bottom margin - its
\* height, and that is endofpage while the page is the current one (page
\* height - bottom margin without a page footer).
C29_CursorAndEndOfPage ==
    /\ \A k \in 1..Len(MainLog) :
           MainLog[k].brk => MainLog[k].at = topmargin + HtSum(TopBands(MainLog[k].page))
    /\ \A k \in 1..Len(canvas.log) :
           LET e == canvas.log[k]
           IN  e.role = "pagefooter" =>
                   /\ e.at = pagesize - bottommargin - e.ht
                   /\ (e.page = rpt.pagenumber /\ err = "none") =>
                          rpt.endofpage = e.at
                   /\ \A j \in (k + 1)..Len(canvas.log) :
                          (canvas.log[j].rule # "page" /\ canvas.log[j].page = e.page
                           /\ ~canvas.log[j].brk)
                              => canvas.log[j].eop = e.at
    /\ (cfg.pagefooter = << >> /\ pc # "idle") =>
           rpt.endofpage = pagesize - bottommargin

\* The first page of a report with all page bands: the first band is below
\* title band, page header and report header, the footer 10 units above the
\* bottom margin.
C29_Witness ==
    /\ rpt.pagenumber = 1 /\ err = "none"
    /\ \E k \in 1..Len(MainLog) :
           /\ MainLog[k].brk /\ MainLog[k].page = 1
           /\ MainLog[k].at = topmargin + 15 + 12 + 8
    /\ \E k \in 1..Len(canvas.log) :
           /\ canvas.log[k].role = "pagefooter"
           /\ canvas.log[k].at = 154
    /\ rpt.endofpage = 154

\* C30: Band.summarize(row) adds the row's amount to the accumulator of
\* every SumElement of the band once and returns, and leaves the band's
\* other elements as they are: the summarize step of the group footers and
\* that of the report footer do so for their bands.
C30_SummarizeAddsOnceToEverySum ==
    [][ /\ pc = "fsum" =>
               /\ pc' = "headers"
               /\ \A i \in 1..NGF :
                      \A j \in 1..Len(cfg.groupfooters[i].elements) :
                          sums'.gf[i][j] =
                              sums.gf[i][j]
                              + (IF j \in SumIdx(cfg.groupfooters[i])
                                 THEN row[1].amount ELSE 0)
        /\ (pc = "rfsum" /\ cfg.reportfooter # << >>) =>
               /\ pc' = "loop"
               /\ \A j \in 1..Len(cfg.reportfooter[1].elements) :
                      sums'.rf[j] =
                          sums.rf[j]
                          + (IF j \in SumIdx(cfg.reportfooter[1])
                             THEN row[1].amount ELSE 0) ]_vars

\* The number of rows processed so far, the current one included: one
\* detail band was generated per processed row.
Processed ==
    IF pc \in { "footers", "fsum", "headers", "detail" }
    THEN Len(expect.detail) + 1
    ELSE Len(expect.detail)

\* C31: a shape with a list of k colours rendered while the n-th processed
\* row is current is filled with colour (n - 1) mod k, whatever records were
\* skipped before: so for the detail band and for every other band with
\* such a background.
C31_ColourOfNthRow ==
    (cfg.kind = "striped" /\ err = "none" /\ pc # "failed" /\ Processed >= 1) =>
        \A k \in 1..Len(canvas.log) :
            LET e == canvas.log[k]
                n == IF e.role = "detail" THEN 2 ELSE 3
            IN  e.colours = << << (Processed - 1) % n >> >>

\* The second processed row is the third record (one was skipped): its
\* detail band is filled with colour 1, after colour 0 for the first row,
\* and the page header of its page with colour 1 of three.
C31_Witness ==
    /\ cfg.kind = "striped" /\ pc = "rfsum" /\ consumed = 3 /\ Processed = 2
    /\ \E k \in 1..Len(canvas.log) :
           /\ canvas.log[k].role = "detail"
           /\ canvas.log[k].colours = << << 1 >> >>
    /\ \E k \in 1..Len(canvas.log) :
           /\ canvas.log[k].role = "pageheader"
           /\ canvas.log[k].colours = << << 1 >> >>

\* C32: generate terminates for every finite datasource, failed or
\* finished; it finishes by closing the final page, once, after the rows
\* and the final footers, and nothing is rendered after that.
C32_Terminates ==
    /\ <>[](pc \in { "done", "failed" })
    /\ [][ /\ pc' = "done" =>
                  /\ pc = "close"
                  /\ canvas'.showPages = canvas.showPages + 1
                  /\ canvas'.log = canvas.log /\ canvas'.drawn = canvas.drawn
           /\ pc' = "close" => pc \in { "endreport", "close" }
           /\ pc' = "endreport" => pc \in { "endfooters", "endreport" }
           /\ pc' = "endfooters" => pc \in { "loop", "endfooters" }
           /\ pc = "done" => canvas' = canvas ]_vars

\* A finished generation after three records, with final footers rendered
\* and more than one page closed.
C32_Witness ==
    /\ pc = "done" /\ consumed = MaxRecords /\ rpt.rownumber >= 2
    /\ canvas.showPages >= 2
    /\ \E k \in 1..Len(canvas.log) : canvas.log[k].role = "groupfooter"

\* The bands a step rendered after a newpage of their own: the log starts
\* anew with every record taken.
Breaks ==
    IF canvas'.log = canvas.log THEN {}
    ELSE { k \in (IF pc = "loop" THEN 1
                  ELSE Len(canvas.log) + 1)..Len(canvas'.log) :
             canvas'.log[k].brk }

\* C33: at the end of a generation the canvas has max(1, pagenumber)
\* showPage calls; during it pagenumber never decreases and increases by 1
\* with every newpage, and every page started but the current one has been
\* closed once.
C33_PagesClosedOnce ==
    /\ [](pc = "done" => canvas.showPages = Max(1, rpt.pagenumber))
    /\ [](pc \notin { "idle", "done" } =>
              canvas.showPages = Max(0, rpt.pagenumber - 1))
    /\ [][ pc # "idle" =>
              /\ rpt'.pagenumber >= rpt.pagenumber
              /\ err' = "none" =>
                     rpt'.pagenumber - rpt.pagenumber = Cardinality(Breaks) ]_vars

\* Three pages were started and three closed; and a generation without rows
\* closes its one empty page.
C33_Witness ==
    /\ pc = "done" /\ rpt.pagenumber = 3 /\ canvas.showPages = 3

\* The tallest the page bands get: generated from a row whose description
\* has two lines.
WidestRow ==
    << [ n |-> 0, name |-> "Alvarez", dept |-> None, lines |-> 2, amount |-> 1 ] >>
SlotHt(slot) ==
    IF slot = << >> THEN 0
    ELSE Band_generate(slot[1], Zeros(slot[1].elements), WidestRow).ht
PageTop == SlotHt(cfg.titleband) + SlotHt(cfg.pageheader) + SlotHt(cfg.reportheader)

\* A band of height ht fits on a fresh page, below the page bands and above
\* the page footer.
FitsFreshPage(ht) ==
    topmargin + PageTop + ht < pagesize - bottommargin - SlotHt(cfg.pagefooter)

\* endofpage of the page the k-th band of the log is drawn on.
EndOfPageOf(k) ==
    LET e == canvas.log[k]
        fs == { j \in 1..Len(canvas.log) :
                  canvas.log[j].role = "pagefooter" /\ canvas.log[j].page = e.page }
    IN  IF cfg.pagefooter = << >> THEN pagesize - bottommargin
        ELSE IF fs # {} THEN canvas.log[CHOOSE j \in fs : TRUE].at
        ELSE e.eop

Above(k) == canvas.log[k].at + canvas.log[k].ht < EndOfPageOf(k)

\* C34 as stated: every band generate renders that would fit on a fresh
\* page, the page bands of newpage included, ends above endofpage of its
\* page.
C34_Original ==
    \A k \in 1..Len(canvas.log) : FitsFreshPage(canvas.log[k].ht) => Above(k)

\* C34: every band that would fit on a fresh page is rendered with offset +
\* height below endofpage of its page, except the page footer, which
\* newpage renders at endofpage itself: it ends at the bottom margin.
C34_AboveEndOfPageButFooter ==
    \A k \in 1..Len(canvas.log) :
        LET e == canvas.log[k]
        IN  /\ (e.role # "pagefooter" /\ FitsFreshPage(e.ht)) => Above(k)
            /\ e.role = "pagefooter" =>
                   /\ e.at = EndOfPageOf(k)
                   /\ e.at + e.ht = pagesize - bottommargin

\* A detail band of 44 units that did not fit under the cursor was moved to
\* the second page and ends above its page footer; so does the first page's
\* footer end at the bottom margin.
C34_Witness ==
    /\ cfg.pagefooter # << >>
    /\ \E k \in 1..Len(canvas.log) :
           /\ canvas.log[k].role = "detail" /\ canvas.log[k].brk
           /\ canvas.log[k].page = 2 /\ canvas.log[k].ht = 44
           /\ canvas.log[k].before + 44 >= canvas.log[k].eop
           /\ Above(k)
    /\ \E k \in 1..Len(canvas.log) :
           /\ canvas.log[k].role = "pagefooter"
           /\ canvas.log[k].at + canvas.log[k].ht = pagesize - bottommargin

\* C35: no band is rendered while pagenumber is 0: the band placed first in
\* a generation, whichever it is, finds the cursor at the page height, at or
\* beyond endofpage, and gets a newpage first.
C35_NoBandOnPageZero ==
    /\ (pc = "loop" /\ consumed = 0) =>
           /\ rpt.pagenumber = 0
           /\ rpt.current_offset >= rpt.endofpage
    /\ \A k \in 1..Len(canvas.log) :
           LET e == canvas.log[k]
           IN  /\ e.page >= 1
               /\ (e.rule # "page" /\ e.pagebefore = 0) =>
                      (e.brk /\ e.page = 1 /\ e.before = pagesize)

\* The first band of a generation was a final group footer (a report without
\* detail band and group headers): it was given page 1.
C35_Witness ==
    /\ pc \in { "endreport", "close", "done" } /\ cfg.kind = "bare"
    /\ \E k \in 1..Len(canvas.log) :
           /\ canvas.log[k].role = "groupfooter"
           /\ canvas.log[k].pagebefore = 0 /\ canvas.log[k].brk
           /\ canvas.log[k].page = 1

\* C36: when generate has returned, rownumber is the number of records of
\* that run that were not skipped and pagenumber the number of pages
\* started in that run, in the first run on a Report and in a later one.
C36_CountersOfTheRun ==
    gn.pc = "returned" =>
        /\ gn.rpt.rownumber = Len(gn.heights)
        /\ gn.rpt.pagenumber = gn.started

=============================================================================
